---- MODULE Spec2Model ----
(***************************************************************************)
(* Verification model of the StickyWall content-enrichment pipeline:       *)
(*   - the oEmbed extraction engine (app/services/oembed_service.py),      *)
(*   - the response cache in front of it (app/api/endpoints/oembed.py,     *)
(*     app/models/models.py),                                              *)
(*   - the Celery wrapper of background extraction                         *)
(*     (app/tasks/oembed_tasks.py),                                        *)
(*   - task status / cancellation (app/services/background_processor.py,   *)
(*     app/api/endpoints/enhanced.py).                                     *)
(* Each area has its own specification over the shared variables.          *)
(***************************************************************************)
EXTENDS Integers, Sequences, FiniteSets, TLC

VARIABLES
    \* ---- extraction engine ----
    engine,         \* one call of get_oembed_data: [pc, url, up, result]
    \* ---- response cache ----
    now,            \* datetime.utcnow(), in ticks (see Time below)
    cache,          \* table oembed_cache: url_hash -> row
    req,            \* in-flight preview / batch-preview requests
    answer,         \* the HTTP answer delivered last
    started,        \* number of requests accepted so far (bounds the run)
    nextId,         \* next value of the autoincrement primary key oembed_cache.id
    sweep,          \* the periodic cleanup task: [pc, expired_count]
    committedHits,  \* history: cache-hit reads committed per entry since its insert
    seq,            \* history: the run of lookups that directly follows a cache write
    \* ---- Celery wrapper of background extraction ----
    ctask,          \* one process_oembed_task: Celery state, retries, history
    \* ---- task status / cancellation ----
    backend,        \* Celery result backend: task id -> stored state
    queue,          \* task messages waiting in the broker
    ctl,            \* revoke broadcasts sent and not yet received by the worker
    revoked,        \* the worker's in-memory set of revoked task ids
    sent,           \* history: task ids that were ever enqueued
    cancelledPending, \* history: ids whose cancel was accepted while PENDING
    poll,           \* last answer of GET /tasks/{id}/status
    \* ---- asset preservation ----
    asset,          \* one run of the success branch of process_oembed_background
    blob,           \* the blob store: the objects written by the run, [path, size]
    \* ---- provider matching ----
    matcher,        \* one call of _identify_provider: [pc, providers, url, result]
    \* ---- batch extraction ----
    batch,          \* one call of batch_get_oembed_data
    \* ---- rate limiter ----
    limiter,        \* ClaudeAIService: the clock, _request_timestamps, the callers
    issued,         \* history: the times at which upstream calls were issued
    \* ---- engine boundary ----
    boundary,       \* one call of get_oembed_data with its exceptions: [pc, url, up, faults, out]
    \* ---- process endpoint and background runs ----
    shareItem,      \* the share item row: [oembed_processed, has_oembed]
    oembedRow,      \* the oembed_data row of the item (unique per item), or NoRow
    preq,           \* the handler of POST /share-item/{id}/process in progress
    runs,           \* the runs of process_oembed_background for the item
    nextRun         \* number of the next run (bounds the model)

vars == << engine, now, cache, req, answer, started, nextId, sweep, committedHits, seq, ctask,
           backend, queue, ctl, revoked, sent, cancelledPending, poll,
           asset, blob, matcher, batch, limiter, issued, boundary,
           shareItem, oembedRow, preq, runs, nextRun >>

engineVars == << engine >>
cacheVars == << now, cache, req, answer, started, nextId, sweep, committedHits, seq >>
taskVars == << ctask >>
orchVars == << backend, queue, ctl, revoked, sent, cancelledPending, poll >>
assetVars == << asset, blob >>
matcherVars == << matcher >>
batchVars == << batch >>
limiterVars == << limiter, issued >>
boundaryVars == << boundary >>
processVars == << shareItem, oembedRow, preq, runs, nextRun >>

None == "None"      \* Python None


(***************************************************************************)
(*                         EXTRACTION ENGINE                               *)
(***************************************************************************)

\* Sample URLs, one per dispatch path of get_oembed_data.
U_YT     == "https://www.youtube.com/watch?v=abc"
U_YTV    == "https://www.youtube.com/v/abc"
U_VIMEO  == "https://vimeo.com/123"
U_TW     == "https://twitter.com/u/status/1"
U_IG     == "https://www.instagram.com/p/xyz"
U_TT     == "https://www.tiktok.com/@u/video/1"
U_PIN    == "https://www.pinterest.com/pin/1"
U_PINIT  == "https://pin.it/abc"
U_PINB   == "https://www.pinterest.com/u/board"
U_TTP    == "https://m.tiktok.com/@u"
U_FB     == "https://www.facebook.com/u/posts/1"
U_EKSI   == "https://eksisozluk.com/entry/1"
U_4CH    == "https://boards.4chan.org/g/thread/1"
U_BLOG   == "https://example.com/post"

EngineUrls == { U_YT, U_YTV, U_VIMEO, U_TW, U_IG, U_TT, U_PIN, U_PINIT, U_PINB,
                U_TTP, U_FB, U_EKSI, U_4CH, U_BLOG }

\* _identify_provider on the sample URLs: the key of the first provider of
\* _load_providers one of whose schemes matches the whole URL.
IdentifyProvider(u) ==
    CASE u \in {U_YT, U_YTV}    -> "youtube"
      [] u = U_VIMEO            -> "vimeo"
      [] u = U_TW               -> "twitter"
      [] u = U_IG               -> "instagram"
      [] u = U_TT               -> "tiktok"
      [] u \in {U_PIN, U_PINIT} -> "pinterest"
      [] OTHER                  -> None

\* OEmbedProvider.name of each registered provider.
ProviderName(p) ==
    CASE p = "youtube"    -> "YouTube"
      [] p = "vimeo"      -> "Vimeo"
      [] p = "twitter"    -> "X (Twitter)"
      [] p = "soundcloud" -> "SoundCloud"
      [] p = "instagram"  -> "Instagram"
      [] p = "tiktok"     -> "TikTok"
      [] p = "reddit"     -> "Reddit"
      [] p = "spotify"    -> "Spotify"
      [] p = "pinterest"  -> "Pinterest"

\* provider.name.lower().replace(" ", "_")
PlatformSlug(p) ==
    CASE p = "twitter" -> "x_(twitter)"
      [] OTHER         -> p

\* urlparse(url).netloc.lower()
Domain(u) ==
    CASE u \in {U_YT, U_YTV}  -> "www.youtube.com"
      [] u = U_VIMEO          -> "vimeo.com"
      [] u = U_TW             -> "twitter.com"
      [] u = U_IG             -> "www.instagram.com"
      [] u = U_TT             -> "www.tiktok.com"
      [] u \in {U_PIN, U_PINB} -> "www.pinterest.com"
      [] u = U_PINIT          -> "pin.it"
      [] u = U_TTP            -> "m.tiktok.com"
      [] u = U_FB             -> "www.facebook.com"
      [] u = U_EKSI           -> "eksisozluk.com"
      [] u = U_4CH            -> "boards.4chan.org"
      [] u = U_BLOG           -> "example.com"

\* The platform whose custom-platform domain substring occurs in the domain
\* ("eksisozluk.com", "4chan.org"/"4channel.org", "pinterest.com"/"pin.it",
\* "tiktok.com", "facebook.com"/"fb.com"), or None.
CustomDomain(u) ==
    CASE Domain(u) = "eksisozluk.com"                  -> "eksisozluk"
      [] Domain(u) = "boards.4chan.org"                -> "4chan"
      [] Domain(u) \in {"www.pinterest.com", "pin.it"} -> "pinterest"
      [] Domain(u) \in {"www.tiktok.com", "m.tiktok.com"} -> "tiktok"
      [] Domain(u) = "www.facebook.com"                -> "facebook"
      [] OTHER                                         -> None

\* The per-platform id patterns applied to the sample URLs.
ExtractYoutubeId(u)   == IF u = U_YT THEN "abc" ELSE None
ExtractInstagramId(u) == IF u = U_IG THEN "xyz" ELSE None
ExtractTiktokId(u)    == IF u = U_TT THEN "1" ELSE None
ExtractTwitterId(u)   == IF u = U_TW THEN "1" ELSE None
ExtractPinterestId(u) == IF u = U_PIN THEN "1" ELSE None
ExtractFacebookId(u)  == IF u = U_FB THEN "1" ELSE None

\* ---- what the network answers ----
\* ok = FALSE: network error, non-2xx status or unparsable body.

\* Answers of an oEmbed endpoint (the JSON fields the engine looks at).
StdFail == [ ok |-> FALSE, type |-> None, html |-> None, url |-> None,
             platform |-> None ]
StdBodies == [ ok : {TRUE}, type : {"video", "photo"}, html : {None, "<iframe>"},
               url : {None, "http://photo"}, platform : {None, "evil"} ]
StdOutcomes == {StdFail} \cup StdBodies

\* Page metadata mined by _extract_page_metadata: the dict is empty when no
\* tag matched; og:image is taken verbatim and may be a relative path.
PageFail == [ ok |-> FALSE, title |-> None, image |-> None ]
PageMetas == [ ok : {TRUE}, title : {None, "T"},
               image : {None, "http://img", "/img.png"} ]
PageOutcomes == {PageFail} \cup PageMetas

\* Answer to the HEAD request that resolves a pin.it short link: the final
\* URL, or "Fail" when the request raises.
HeadOutcomes == {U_PIN, U_PINB, "Fail"}

Upstreams == [ std : StdOutcomes, page : PageOutcomes, head : HeadOutcomes ]

\* pydantic's HttpUrl: a value object, not a string; a relative path is
\* rejected with a ValidationError.
IsHttpUrl(s) == s \in { "http://img", "http://photo", "https://example.com",
                        "https://instagram.com/", "https://www.tiktok.com/",
                        "https://tiktok.com/", "https://pinterest.com/",
                        "https://facebook.com/", "https://eksisozluk.com/",
                        "https://4chan.org/", "https://www.youtube.com/",
                        "https://vimeo.com/", "https://x.com/" }
HttpUrl(s) == [ cls |-> "HttpUrl", s |-> s ]
Str(s) == [ cls |-> "str", s |-> s ]
NoneVal == [ cls |-> "NoneType", s |-> None ]
\* Field validation of an Optional[HttpUrl] from a string or None.
UrlFieldOk(s) == s = None \/ IsHttpUrl(s)
UrlField(s) == IF s = None THEN NoneVal ELSE HttpUrl(s)

\* OEmbedProvider.url
ProviderUrl(p) ==
    CASE p = "youtube" -> "https://www.youtube.com/"
      [] p = "vimeo"   -> "https://vimeo.com/"
      [] p = "twitter" -> "https://x.com/"
      [] p = "tiktok"  -> "https://www.tiktok.com/"

\* OEmbedResponse(...) with the fields the pipeline reads.
OEmbedResponse(type, platform, platform_id, provider_name, provider_url, title, thumbnail_url, url, html) ==
    [ type |-> type, platform |-> platform, platform_id |-> platform_id,
      provider_name |-> provider_name, provider_url |-> UrlField(provider_url),
      title |-> title, thumbnail_url |-> UrlField(thumbnail_url),
      url |-> UrlField(url), html |-> html ]

\* Python None where an Optional[OEmbedResponse] is expected (type is the one
\* required field of a response, so type = None marks it).
NoneResp ==
    [ type |-> None, platform |-> None, platform_id |-> None,
      provider_name |-> None, provider_url |-> NoneVal, title |-> None,
      thumbnail_url |-> NoneVal, url |-> NoneVal, html |-> None ]
IsNone(o) == o.type = None

\* `if metadata:` -- None and the empty dict are both falsy.
Truthy(m) == m.ok /\ (m.title # None \/ m.image # None)
\* metadata.get(key, default)
GetOr(v, default) == IF v = None THEN default ELSE v

\* _standard_oembed_request without the stamping: platform as the upstream
\* body gives it, the provider's only when the body has none.
StandardOEmbedRequestTrusting(p, up) ==
    IF ~up.std.ok \/ ~UrlFieldOk(up.std.url) THEN NoneResp
    ELSE OEmbedResponse(up.std.type, GetOr(up.std.platform, PlatformSlug(p)), None,
                        ProviderName(p), ProviderUrl(p), None, None, up.std.url,
                        up.std.html)

\* _standard_oembed_request: GET the endpoint, stamp platform / provider_name /
\* provider_url from the provider, validate; every failure gives None.
StandardOEmbedRequest(p, up) ==
    IF ~up.std.ok \/ ~UrlFieldOk(up.std.url) THEN NoneResp
    ELSE OEmbedResponse(up.std.type, PlatformSlug(p), None, ProviderName(p),
                        ProviderUrl(p), None, None, up.std.url, up.std.html)

\* _extract_youtube
ExtractYoutube(u, up) ==
    LET video_id == ExtractYoutubeId(u)
        oembed_data == StandardOEmbedRequest("youtube", up)
    IN  IF video_id = None THEN NoneResp
        ELSE IF ~IsNone(oembed_data)
             THEN [oembed_data EXCEPT !.platform = "youtube", !.platform_id = video_id]
             ELSE NoneResp

\* A card synthesised from page metadata (the rich results of the scrapers):
\* a ValidationError on the thumbnail is caught by the caller's except.
MetaCard(platform, platform_id, provider_name, provider_url, title, up) ==
    IF ~UrlFieldOk(up.page.image) THEN NoneResp
    ELSE OEmbedResponse("rich", platform, platform_id, provider_name,
                        provider_url, title, up.page.image, None, "<div card>")

\* _extract_instagram
ExtractInstagram(u, up) ==
    LET post_id == ExtractInstagramId(u)
    IN  IF post_id = None THEN NoneResp
        ELSE IF Truthy(up.page)
             THEN MetaCard("instagram", post_id, "Instagram",
                           "https://instagram.com/", up.page.title, up)
             ELSE NoneResp

\* _extract_tiktok
ExtractTiktok(u, up) ==
    LET oembed_data == StandardOEmbedRequest("tiktok", up)
        video_id == ExtractTiktokId(u)
    IN  IF ~IsNone(oembed_data) /\ oembed_data.html # None
        THEN [oembed_data EXCEPT !.platform = "tiktok"]
        ELSE IF Truthy(up.page)
             THEN MetaCard("tiktok", video_id, "TikTok", "https://www.tiktok.com/",
                           GetOr(up.page.title, "TikTok Video"), up)
             ELSE NoneResp

\* _extract_twitter
ExtractTwitter(u, up) ==
    LET oembed_data == StandardOEmbedRequest("twitter", up)
        tweet_id == ExtractTwitterId(u)
    IN  IF ~IsNone(oembed_data)
        THEN [oembed_data EXCEPT !.platform = "twitter",
                                 !.platform_id = IF tweet_id # None THEN tweet_id ELSE @]
        ELSE NoneResp

\* _extract_pinterest
ExtractPinterest(u, up) ==
    IF u = U_PINIT /\ up.head = "Fail" THEN NoneResp
    ELSE LET url == IF u = U_PINIT THEN up.head ELSE u
             pin_id == ExtractPinterestId(url)
         IN  IF pin_id = None THEN NoneResp
             ELSE IF Truthy(up.page)
                  THEN MetaCard("pinterest", pin_id, "Pinterest",
                                "https://pinterest.com/",
                                GetOr(up.page.title, "Pinterest Pin"), up)
                  ELSE NoneResp

\* _extract_eksisozluk
ExtractEksisozluk(u, up) ==
    IF Truthy(up.page)
    THEN MetaCard("eksisozluk", None, "eksi sozluk", "https://eksisozluk.com/",
                  GetOr(up.page.title, ""), up)
    ELSE NoneResp

\* _extract_4chan: the card is built even when the page is gone.
Extract4chan(u, up) ==
    IF u # U_4CH THEN NoneResp
    ELSE OEmbedResponse("rich", "4chan", None, "4chan", "https://4chan.org/",
                        GetOr(up.page.title, "/g/ thread #1"), None, None,
                        "<div card>")

\* _extract_tiktok_custom
ExtractTiktokCustom(u, up) ==
    LET result == ExtractTiktok(u, up)
    IN  IF ~IsNone(result) /\ result.html # None THEN result
        ELSE IF ~IsNone(result)
             THEN [result EXCEPT !.html = "<div card>", !.type = "rich"]
             ELSE IF Truthy(up.page)
                  THEN MetaCard("tiktok", None, "TikTok", "https://tiktok.com/",
                                GetOr(up.page.title, "TikTok Video"), up)
                  ELSE NoneResp

\* _extract_facebook_custom
ExtractFacebookCustom(u, up) ==
    IF Truthy(up.page)
    THEN MetaCard("facebook", ExtractFacebookId(u), "Facebook",
                  "https://facebook.com/", GetOr(up.page.title, "Facebook Post"), up)
    ELSE NoneResp

\* _fallback_extraction: the generic Open-Graph / Twitter-Card / <title> card.
FallbackExtraction(u, up) ==
    IF Truthy(up.page)
    THEN MetaCard("generic", None, Domain(u), "https://example.com",
                  GetOr(up.page.title, ""), up)
    ELSE NoneResp

\* The path tests of _extract_custom_platform on the sample URLs.
TiktokPath(u) == u \in {U_TT, U_TTP}
FacebookPath(u) == u = U_FB

\* _extract_custom_platform
ExtractCustomPlatform(u, up) ==
    CASE CustomDomain(u) = "eksisozluk"                 -> ExtractEksisozluk(u, up)
      [] CustomDomain(u) = "4chan"                      -> Extract4chan(u, up)
      [] CustomDomain(u) = "pinterest"                  -> ExtractPinterest(u, up)
      [] CustomDomain(u) = "tiktok" /\ TiktokPath(u)    -> ExtractTiktokCustom(u, up)
      [] CustomDomain(u) = "facebook" /\ FacebookPath(u) -> ExtractFacebookCustom(u, up)
      [] OTHER                                          -> FallbackExtraction(u, up)

\* get_oembed_data: every extractor catches its own exceptions, so the
\* except branch of get_oembed_data itself is never entered.
GetOEmbedData(u, up) ==
    LET provider == IdentifyProvider(u)
    IN  CASE provider = None        -> ExtractCustomPlatform(u, up)
          [] provider = "youtube"   -> ExtractYoutube(u, up)
          [] provider = "instagram" -> ExtractInstagram(u, up)
          [] provider = "pinterest" -> ExtractPinterest(u, up)
          [] provider = "tiktok"    -> ExtractTiktok(u, up)
          [] provider = "twitter"   -> ExtractTwitter(u, up)
          [] OTHER                  -> StandardOEmbedRequest(provider, up)

\* A support check that lets every URL through.
SupportsEverything(u) == TRUE

\* is_supported_url
IsSupportedUrl(u) == IdentifyProvider(u) # None \/ CustomDomain(u) # None

\* ---- one call of the engine, as a process ----
EngineIdle == [ pc |-> "idle", url |-> U_YT, up |-> [ std |-> StdFail,
                page |-> PageFail, head |-> "Fail" ], result |-> NoneResp ]

EngineInit == engine = EngineIdle

\* A caller invokes get_oembed_data(url) while the network is in state up.
EngineCall ==
    /\ engine.pc = "idle"
    /\ \E u \in EngineUrls, up \in Upstreams :
          engine' = [ pc |-> "called", url |-> u, up |-> up, result |-> NoneResp ]
    /\ UNCHANGED << cacheVars, taskVars, orchVars, assetVars, matcherVars, batchVars, limiterVars, boundaryVars, processVars >>

\* get_oembed_data returns.
EngineReturn ==
    /\ engine.pc = "called"
    /\ engine' = [ engine EXCEPT !.pc = "returned",
                                 !.result = GetOEmbedData(engine.url, engine.up) ]
    /\ UNCHANGED << cacheVars, taskVars, orchVars, assetVars, matcherVars, batchVars, limiterVars, boundaryVars, processVars >>

\* The caller drops the result; the service is ready for the next call.
EngineReset ==
    /\ engine.pc = "returned"
    /\ engine' = EngineIdle
    /\ UNCHANGED << cacheVars, taskVars, orchVars, assetVars, matcherVars, batchVars, limiterVars, boundaryVars, processVars >>

EngineNext == EngineCall \/ EngineReturn \/ EngineReset

(***************************************************************************)
(*                           RESPONSE CACHE                                *)
(***************************************************************************)

\* ---- time ----
\* datetime.utcnow() has microsecond resolution. The model keeps the shape of
\* a timestamp (day, second of the day, microsecond) on a scaled-down day.
SecondsPerDay == 2
MicrosPerSecond == 2
MaxTime == 3
TicksPerDay == SecondsPerDay * MicrosPerSecond
NullTime == -1      \* a NULL DateTime column

\* datetime.replace(hour=23, minute=59, second=59): the last second of the
\* same day; the microsecond field is not among the replaced fields.
ReplaceEndOfDay(t) ==
    (t \div TicksPerDay) * TicksPerDay
        + (SecondsPerDay - 1) * MicrosPerSecond
        + (t % MicrosPerSecond)

\* ---- keys and payloads ----
CacheUrls == { U_VIMEO, U_BLOG }

\* hashlib.sha256(url.encode()).hexdigest() of the exact URL string.
UrlHash(u) ==
    CASE u = U_VIMEO -> "sha256:5d0c"
      [] u = U_BLOG  -> "sha256:a41e"

\* The network states a preview can meet.
PreviewUpstreams ==
    { up \in Upstreams :
        /\ up.head = "Fail"
        /\ up.std \in { StdFail, [ ok |-> TRUE, type |-> "photo", html |-> None,
                                   url |-> "http://photo", platform |-> None ] }
        /\ up.page \in { PageFail, [ ok |-> TRUE, title |-> "T",
                                     image |-> "http://img" ] } }

UrlFields == { "provider_url", "thumbnail_url", "url" }

\* oembed_data.dict() followed by the loop that turns HttpUrl values into str.
ToDict(o) ==
    [ f \in DOMAIN o |->
        IF f \in UrlFields /\ o[f].cls = "HttpUrl" THEN Str(o[f].s) ELSE o[f] ]

\* OEmbedResponse(**cached.oembed_response): strings are validated back into
\* HttpUrl values.
FromDict(d) ==
    [ f \in DOMAIN d |->
        IF f \in UrlFields /\ d[f].cls = "str" THEN HttpUrl(d[f].s) ELSE d[f] ]

\* OEmbedPreviewResponse
PreviewResponse(is_supported, provider, oembed_data, cached, error) ==
    [ is_supported |-> is_supported, provider |-> provider,
      oembed_data |-> oembed_data, cached |-> cached, error |-> error ]

\* OEmbedCache(...) as built by the endpoints; id, hit_count and last_hit get
\* their values (autoincrement, column defaults) at INSERT.
CacheEntry(u, o, t) ==
    [ url_hash |-> UrlHash(u), original_url |-> u, oembed_response |-> ToDict(o),
      status_code |-> 200, platform |-> o.platform,
      expires_at |-> ReplaceEndOfDay(t) ]

InsertedRow(entry, id) ==
    [ id |-> id, url_hash |-> entry.url_hash, original_url |-> entry.original_url,
      oembed_response |-> entry.oembed_response, status_code |-> entry.status_code,
      platform |-> entry.platform, expires_at |-> entry.expires_at,
      hit_count |-> 0, last_hit |-> NullTime ]

\* The inclusive comparison: an entry that expires at this very instant
\* would still count as live.
ExpiresAtOrAfter(row, t) == row.expires_at >= t

\* WHERE OEmbedCache.expires_at > datetime.utcnow()
Unexpired(row, t) == row.expires_at > t

\* SELECT ... WHERE url_hash IN hashes AND expires_at > utcnow()
SelectUnexpired(hashes, t) ==
    { h \in hashes \cap DOMAIN cache : Unexpired(cache[h], t) }

\* ---- requests ----
NumReq == 2         \* requests in flight at the same time
MaxRequests == 3    \* requests accepted in one run
MaxBatch == 1       \* URLs in one batch request
Reqs == 1..NumReq

BatchLists == UNION { [1..n -> CacheUrls] : n \in 1..MaxBatch }

NoFn == [ x \in {} |-> x ]     \* the empty mapping

IdleReq == [ pc |-> "idle", kind |-> "preview", urls |-> << >>,
             loaded |-> NoFn, stale |-> FALSE ]

\* An HTTP answer: the request it answers, the status code and the body (one
\* PreviewResponse per URL); stale records that the request's lookup met a
\* stored entry that had expired.
Answer(r, kind, urls, http, results, stale) ==
    [ r |-> r, kind |-> kind, urls |-> urls, http |-> http,
      results |-> results, stale |-> stale ]
NoAnswer == Answer(0, "preview", << >>, 0, NoFn, FALSE)

Range(f) == { f[i] : i \in DOMAIN f }

\* f with key k bound to v
Put(f, k, v) == [ x \in DOMAIN f \cup {k} |-> IF x = k THEN v ELSE f[x] ]
\* f without the keys in ks
Drop(f, ks) == [ x \in DOMAIN f \ ks |-> f[x] ]
\* number of positions of list us that hold u
Occurrences(us, u) == Cardinality({ i \in DOMAIN us : us[i] = u })
\* first position of u in list us
FirstIndex(us, u) == CHOOSE i \in DOMAIN us : us[i] = u /\ \A j \in DOMAIN us : us[j] = u => i <= j

\* history of the lookups that directly follow a cache write
NoSeq == [ active |-> FALSE, url |-> U_VIMEO, data |-> NoneResp, k |-> 0,
           reader |-> 0, missed |-> FALSE, last |-> NoneResp ]

CacheInit ==
    /\ now = 0
    /\ cache = NoFn
    /\ req = [ r \in Reqs |-> IdleReq ]
    /\ answer = NoAnswer
    /\ started = 0
    /\ nextId = 1
    /\ sweep = [ pc |-> "idle", expired_count |-> 0 ]
    /\ committedHits = NoFn
    /\ seq = NoSeq

\* Time passes.
Tick ==
    /\ now < MaxTime
    /\ now' = now + 1
    /\ seq' = NoSeq
    /\ UNCHANGED << cache, req, answer, started, nextId, sweep, committedHits >>
    /\ UNCHANGED << engineVars, taskVars, orchVars, assetVars, matcherVars, batchVars, limiterVars, boundaryVars, processVars >>

\* A request slot is free when it holds no request in flight; a new request
\* takes the lowest free slot.
Free(r) == req[r].pc = "idle"
Accepts(r) == Free(r) /\ \A q \in Reqs : q < r => ~Free(q)

\* preview_oembed from the arrival of POST /preview to its first await after
\* the cache SELECT: on a hit the accounting is done in memory and the commit
\* is awaited; on a miss the support check answers at once or the engine is
\* awaited.
PreviewLookup(r, u) ==
    LET h == UrlHash(u)
        hit == SelectUnexpired({h}, now) # {}
    IN  /\ Accepts(r)
        /\ started < MaxRequests
        /\ started' = started + 1
        /\ req' = [ req EXCEPT ![r] =
              IF hit
              THEN [ IdleReq EXCEPT !.pc = "commit_hit", !.urls = << u >>,
                       !.loaded = Put(NoFn, h, [ cache[h] EXCEPT !.hit_count = @ + 1,
                                                                 !.last_hit = now ]) ]
              ELSE IF ~IsSupportedUrl(u)
              THEN IdleReq
              ELSE [ IdleReq EXCEPT !.pc = "extract", !.urls = << u >>,
                                    !.stale = h \in DOMAIN cache ] ]
        /\ answer' = IF ~hit /\ ~IsSupportedUrl(u)
                      THEN Answer(r, "preview", << u >>, 200,
                               Put(NoFn, u, PreviewResponse(FALSE, None, NoneResp, FALSE,
                                                            "unsupported")),
                               h \in DOMAIN cache)
                      ELSE answer
        /\ seq' = IF seq.active /\ seq.reader = 0 /\ ~seq.missed /\ seq.url = u
                  THEN [ seq EXCEPT !.reader = r, !.missed = ~hit ] ELSE NoSeq
        /\ UNCHANGED << now, cache, nextId, sweep, committedHits >>
        /\ UNCHANGED << engineVars, taskVars, orchVars, assetVars, matcherVars, batchVars, limiterVars, boundaryVars, processVars >>

\* The row of the table that a loaded ORM object still refers to.
SameRow(h, obj) == h \in DOMAIN cache /\ cache[h].id = obj.id

\* UPDATE oembed_cache SET hit_count = <value computed in memory>,
\* last_hit = ... WHERE id = <pk>, for every object a session has modified.
FlushHits(loaded) ==
    [ h \in DOMAIN cache |->
        IF h \in DOMAIN loaded
        THEN [ cache[h] EXCEPT !.hit_count = loaded[h].hit_count,
                               !.last_hit = loaded[h].last_hit ]
        ELSE cache[h] ]

\* preview_oembed, cache-hit branch: commit, then answer from the entry. An
\* UPDATE that matches no row raises, and the except branch answers.
PreviewCommitHit(r) ==
    LET u == req[r].urls[1]
        h == UrlHash(u)
        obj == req[r].loaded[h]
        ok == SameRow(h, obj)
        resp == IF ok
                THEN PreviewResponse(TRUE, obj.platform, FromDict(obj.oembed_response),
                                     TRUE, None)
                ELSE PreviewResponse(FALSE, None, NoneResp, FALSE, "internal")
    IN  /\ req[r].pc = "commit_hit"
        /\ req[r].kind = "preview"
        /\ cache' = IF ok THEN FlushHits(req[r].loaded) ELSE cache
        /\ committedHits' = IF ok THEN [ committedHits EXCEPT ![h] = @ + 1 ]
                            ELSE committedHits
        /\ req' = [ req EXCEPT ![r] = IdleReq ]
        /\ answer' = Answer(r, "preview", << u >>, 200, Put(NoFn, u, resp), FALSE)
        /\ seq' = IF seq.active /\ seq.reader = r
                  THEN [ seq EXCEPT !.k = @ + 1, !.reader = 0,
                                    !.missed = ~ok, !.last = resp.oembed_data ]
                  ELSE NoSeq
        /\ UNCHANGED << now, started, nextId, sweep >>
        /\ UNCHANGED << engineVars, taskVars, orchVars, assetVars, matcherVars, batchVars, limiterVars, boundaryVars, processVars >>

\* preview_oembed, miss branch, from the return of the engine to the answer:
\* a None is answered as a failure; otherwise the cache entry is built
\* (expires_at from utcnow()) and committed. url_hash is UNIQUE: an INSERT on
\* a stored hash raises IntegrityError, whatever the stored row's expires_at,
\* and the except branch answers.
PreviewExtract(r) ==
    LET u == req[r].urls[1]
        h == UrlHash(u)
        free == h \notin DOMAIN cache
    IN  /\ req[r].pc = "extract"
        /\ req[r].kind = "preview"
        /\ \E up \in PreviewUpstreams :
              LET o == GetOEmbedData(u, up)
                  stored == ~IsNone(o) /\ free
                  resp == IF IsNone(o)
                          THEN PreviewResponse(TRUE, None, NoneResp, FALSE, "failed")
                          ELSE IF free
                          THEN PreviewResponse(TRUE, o.provider_name, o, FALSE, None)
                          ELSE PreviewResponse(FALSE, None, NoneResp, FALSE, "internal")
              IN  /\ req' = [ req EXCEPT ![r] = IdleReq ]
                  /\ answer' = Answer(r, "preview", << u >>, 200, Put(NoFn, u, resp),
                                       req[r].stale /\ ~free /\ ~Unexpired(cache[h], now))
                  /\ cache' = IF stored
                              THEN Put(cache, h, InsertedRow(CacheEntry(u, o, now), nextId))
                              ELSE cache
                  /\ nextId' = IF stored THEN nextId + 1 ELSE nextId
                  /\ committedHits' = IF stored THEN Put(committedHits, h, 0)
                                      ELSE committedHits
                  /\ seq' = IF stored
                            THEN [ NoSeq EXCEPT !.active = TRUE, !.url = u, !.data = o ]
                            ELSE IF seq.active /\ seq.reader = r THEN seq ELSE NoSeq
        /\ UNCHANGED << now, started, sweep >>
        /\ UNCHANGED << engineVars, taskVars, orchVars, assetVars, matcherVars, batchVars, limiterVars, boundaryVars, processVars >>

\* batch_preview_oembed from the arrival of POST /batch-preview to its first
\* await after the SELECT for all the hashes: the loop over the request's
\* URLs does the hit accounting in memory (once per position of the list) or
\* puts the URL in urls_to_process.
BatchLookup(r, us) ==
    LET hits == SelectUnexpired({ UrlHash(u) : u \in Range(us) }, now)
        hitUrls == { u \in Range(us) : UrlHash(u) \in hits }
        loaded == [ h \in hits |->
                      LET u == cache[h].original_url
                      IN  [ cache[h] EXCEPT !.hit_count = @ + Occurrences(us, u),
                                            !.last_hit = now ] ]
    IN  /\ Accepts(r)
        /\ started < MaxRequests
        /\ started' = started + 1
        /\ req' = [ req EXCEPT ![r] =
                      [ IdleReq EXCEPT !.pc = IF hitUrls = Range(us) THEN "commit_batch"
                                              ELSE "extract",
                                       !.kind = "batch", !.urls = us,
                                       !.loaded = loaded,
                                       !.stale = \E u \in Range(us) :
                                                   UrlHash(u) \in DOMAIN cache \ hits ] ]
        /\ seq' = NoSeq
        /\ UNCHANGED << now, cache, answer, nextId, sweep, committedHits >>
        /\ UNCHANGED << engineVars, taskVars, orchVars, assetVars, matcherVars, batchVars, limiterVars, boundaryVars, processVars >>

\* The answers of batch_preview_oembed for the entries it found in the cache.
CachedResults(loaded) ==
    [ u \in { loaded[h].original_url : h \in DOMAIN loaded } |->
        LET obj == loaded[UrlHash(u)]
        IN  PreviewResponse(TRUE, obj.platform, FromDict(obj.oembed_response),
                            TRUE, None) ]

\* batch_preview_oembed from there to the answer. batch_get_oembed_data
\* gathers one engine call per non-cached URL (each meets its own network
\* state); the loop over its results builds the cache entries and the
\* answers; one commit carries the UPDATEs of the hit entries and the INSERTs
\* of the new ones. An INSERT on a stored url_hash or an UPDATE that matches
\* no row raises: the transaction is rolled back and the answer is HTTP 500.
BatchFinish(r) ==
    LET us == req[r].urls
        loaded == req[r].loaded
        cached == CachedResults(loaded)
        todo == Range(us) \ DOMAIN cached
    IN  /\ req[r].pc \in {"extract", "commit_batch"}
        /\ req[r].kind = "batch"
        /\ \E ups \in [ todo -> PreviewUpstreams ] :
              LET o == [ u \in todo |-> GetOEmbedData(u, ups[u]) ]
                  good == { u \in todo : ~IsNone(o[u]) }
                  newHashes == { UrlHash(u) : u \in good }
                  urlOf(h) == CHOOSE u \in good : UrlHash(u) = h
                  rank(u) == Cardinality({ v \in good :
                                             FirstIndex(us, v) < FirstIndex(us, u) })
                  results == [ u \in Range(us) |->
                      IF u \in DOMAIN cached THEN cached[u]
                      ELSE IF u \in good
                      THEN PreviewResponse(TRUE, o[u].provider_name, o[u], FALSE, None)
                      ELSE PreviewResponse(IsSupportedUrl(u), None, NoneResp, FALSE,
                               IF IsSupportedUrl(u) THEN "failed" ELSE "unsupported") ]
                  ok == /\ \A h \in DOMAIN loaded : SameRow(h, loaded[h])
                        /\ newHashes \cap DOMAIN cache = {}
                  updated == FlushHits(loaded)
              IN  /\ cache' = IF ok
                              THEN [ h \in DOMAIN cache \cup newHashes |->
                                       IF h \in newHashes
                                       THEN InsertedRow(CacheEntry(urlOf(h), o[urlOf(h)], now),
                                                        nextId + rank(urlOf(h)))
                                       ELSE updated[h] ]
                              ELSE cache
                  /\ nextId' = IF ok THEN nextId + Cardinality(good) ELSE nextId
                  /\ committedHits' = IF ok
                        THEN [ h \in DOMAIN cache \cup newHashes |->
                                 IF h \in newHashes THEN 0
                                 ELSE IF h \in DOMAIN loaded
                                 THEN committedHits[h]
                                          + Occurrences(us, cache[h].original_url)
                                 ELSE committedHits[h] ]
                        ELSE committedHits
                  /\ req' = [ req EXCEPT ![r] = IdleReq ]
                  /\ answer' = Answer(r, "batch", us, IF ok THEN 200 ELSE 500,
                                       IF ok THEN results ELSE NoFn, req[r].stale)
        /\ seq' = NoSeq
        /\ UNCHANGED << now, started, sweep >>
        /\ UNCHANGED << engineVars, taskVars, orchVars, assetVars, matcherVars, batchVars, limiterVars, boundaryVars, processVars >>

\* WHERE OEmbedCache.expires_at < datetime.utcnow()
Expired(row, t) == row.expires_at < t

\* cleanup_expired_oembed_cache, first statement: count the expired entries.
SweepCount ==
    /\ sweep.pc = "idle"
    /\ sweep' = [ pc |-> "counted",
                  expired_count |->
                      Cardinality({ h \in DOMAIN cache : Expired(cache[h], now) }) ]
    /\ seq' = NoSeq
    /\ UNCHANGED << now, cache, req, answer, started, nextId, committedHits >>
    /\ UNCHANGED << engineVars, taskVars, orchVars, assetVars, matcherVars, batchVars, limiterVars, boundaryVars, processVars >>

\* cleanup_expired_oembed_cache, second statement and commit: delete the
\* entries expired by now; the task returns sweep.expired_count.
SweepDelete ==
    LET gone == { h \in DOMAIN cache : Expired(cache[h], now) }
    IN  /\ sweep.pc = "counted"
        /\ cache' = Drop(cache, gone)
        /\ committedHits' = Drop(committedHits, gone)
        /\ sweep' = [ pc |-> "idle", expired_count |-> 0 ]
        /\ seq' = NoSeq
        /\ UNCHANGED << now, req, answer, started, nextId >>
        /\ UNCHANGED << engineVars, taskVars, orchVars, assetVars, matcherVars, batchVars, limiterVars, boundaryVars, processVars >>

CacheNext ==
    \/ Tick
    \/ \E r \in Reqs, u \in CacheUrls : PreviewLookup(r, u)
    \/ \E r \in Reqs : PreviewCommitHit(r)
    \/ \E r \in Reqs : PreviewExtract(r)
    \/ \E r \in Reqs, us \in BatchLists : BatchLookup(r, us)
    \/ \E r \in Reqs : BatchFinish(r)
    \/ SweepCount
    \/ SweepDelete

(***************************************************************************)
(*              CELERY WRAPPER OF BACKGROUND EXTRACTION                    *)
(***************************************************************************)

\* @celery_app.task(bind=True, max_retries=3, default_retry_delay=60)
max_retries == 3

\* The backoff without its ceiling.
RetryDelayUncapped(retries) == (2 ^ retries) * 60

\* min(300, (2 ** self.request.retries) * 60)
RetryDelay(retries) ==
    IF (2 ^ retries) * 60 < 300 THEN (2 ^ retries) * 60 ELSE 300

\* What one run of process_oembed_background meets:
\*   infra   - the event loop / database session can be set up ("ok") or
\*             that raises outside the function's try block ("raise");
\*   extract - get_oembed_data returns a response ("data"), returns None
\*             ("none"), or something inside the try block raises ("raise").
RunInputs == [ infra : {"ok", "raise"}, extract : {"data", "none", "raise"} ]

\* process_oembed_background(item_id, force_refresh) on the share item `item`
\* and its oembed_data record `record` ("none" when there is no row, else the
\* row's extraction_status). Gives the return value ("True", "False", or
\* "Raise" when an exception leaves the function), the item and record after
\* the run, and what kind of run it was.
ProcessOEmbedBackground(item, record, force_refresh, inp) ==
    CASE inp.infra = "raise" ->
            [ ret |-> "Raise", item |-> item, record |-> record, run |-> "raised" ]
      [] inp.infra = "ok" /\ (~item.exists \/ ~item.has_url) ->
            [ ret |-> "False", item |-> item, record |-> record, run |-> "no_item" ]
      [] inp.infra = "ok" /\ item.exists /\ item.has_url
            /\ record # "none" /\ ~force_refresh ->
            [ ret |-> "True", item |-> item, record |-> record, run |-> "skipped" ]
      [] OTHER ->
            IF inp.extract = "data"
            THEN [ ret |-> "True", item |-> [ item EXCEPT !.oembed_processed = TRUE ],
                   record |-> "success", run |-> "ok" ]
            ELSE [ ret |-> "False", item |-> [ item EXCEPT !.oembed_processed = TRUE ],
                   record |-> IF record = "none" THEN "failed" ELSE record,
                   run |-> IF inp.extract = "none" THEN "exhausted" ELSE "caught" ]

Items == [ exists : BOOLEAN, has_url : BOOLEAN, oembed_processed : {FALSE} ]
Records == { "none", "failed", "success" }

NoTask == [ state |-> "NONE", retries |-> 0, result |-> None, attempts |-> 0,
            countdown |-> 0, lastRun |-> "none", force_refresh |-> FALSE,
            item |-> [ exists |-> TRUE, has_url |-> TRUE, oembed_processed |-> FALSE ],
            record |-> "none" ]

TaskInit == ctask = NoTask

\* process_oembed_task.delay(item_id, force_refresh): the message is queued.
\* A share item without a row has no oembed_data row either.
TaskEnqueue ==
    /\ ctask.state = "NONE"
    /\ \E f \in BOOLEAN, it \in Items, rec \in Records :
          /\ (~it.exists => rec = "none")
          /\ ctask' = [ NoTask EXCEPT !.state = "PENDING", !.force_refresh = f,
                                      !.item = it, !.record = rec ]
    /\ UNCHANGED << engineVars, cacheVars, orchVars, assetVars, matcherVars, batchVars, limiterVars, boundaryVars, processVars >>

\* A worker takes the message (first delivery, or a retry whose countdown has
\* passed) and starts the task body.
TaskStart ==
    /\ ctask.state \in {"PENDING", "RETRY"}
    /\ ctask' = [ ctask EXCEPT !.state = "STARTED", !.attempts = @ + 1 ]
    /\ UNCHANGED << engineVars, cacheVars, orchVars, assetVars, matcherVars, batchVars, limiterVars, boundaryVars, processVars >>

\* The body of process_oembed_task: run process_oembed_background to the end
\* and return its value; only an exception reaches the except branch, which
\* retries while self.request.retries < self.max_retries and returns False
\* otherwise. A task body that returns leaves the task in Celery's SUCCESS
\* state with the returned value as result; self.retry leaves it in RETRY.
TaskRun ==
    /\ ctask.state = "STARTED"
    /\ \E inp \in RunInputs :
          LET out == ProcessOEmbedBackground(ctask.item, ctask.record,
                                             ctask.force_refresh, inp)
          IN  ctask' =
                IF out.ret # "Raise"
                THEN [ ctask EXCEPT !.state = "SUCCESS", !.result = out.ret,
                                    !.item = out.item, !.record = out.record,
                                    !.lastRun = out.run ]
                ELSE IF ctask.retries < max_retries
                THEN [ ctask EXCEPT !.state = "RETRY", !.retries = @ + 1,
                                    !.countdown = RetryDelay(ctask.retries),
                                    !.lastRun = out.run ]
                ELSE [ ctask EXCEPT !.state = "SUCCESS", !.result = "False",
                                    !.lastRun = out.run ]
    /\ UNCHANGED << engineVars, cacheVars, orchVars, assetVars, matcherVars, batchVars, limiterVars, boundaryVars, processVars >>

TaskNext == TaskEnqueue \/ TaskStart \/ TaskRun

(***************************************************************************)
(*                  TASK STATUS AND CANCELLATION                           *)
(***************************************************************************)

NumTasks == 2
TaskIds == 1..NumTasks

NoPoll == [ id |-> 1, http |-> 0, status |-> None, enqueued |-> FALSE ]

OrchInit ==
    /\ backend = NoFn
    /\ queue = {}
    /\ ctl = {}
    /\ revoked = {}
    /\ sent = {}
    /\ cancelledPending = {}
    /\ poll = NoPoll

\* AsyncResult(task_id).status: the state stored in the result backend; an id
\* the backend has no row for reads as PENDING.
ResultStatus(id) == IF id \in DOMAIN backend THEN backend[id] ELSE "PENDING"

\* BackgroundProcessor.get_task_status: the status of the AsyncResult, or
\* 'UNKNOWN' when reading the backend raises.
GetTaskStatus(id, backendUp) == IF backendUp THEN ResultStatus(id) ELSE "UNKNOWN"

\* celery.send_task(...): a fresh task id, the message goes to the broker.
SendTask(id) ==
    /\ id \notin sent
    /\ sent' = sent \cup {id}
    /\ queue' = queue \cup {id}
    /\ UNCHANGED << backend, ctl, revoked, cancelledPending, poll >>
    /\ UNCHANGED << engineVars, cacheVars, taskVars, assetVars, matcherVars, batchVars, limiterVars, boundaryVars, processVars >>

\* The worker takes a message whose id it does not hold as revoked and starts
\* the task (task_track_started=True: the backend records STARTED).
WorkerStart(id) ==
    /\ id \in queue
    /\ id \notin revoked
    /\ queue' = queue \ {id}
    /\ backend' = Put(backend, id, "STARTED")
    /\ UNCHANGED << ctl, revoked, sent, cancelledPending, poll >>
    /\ UNCHANGED << engineVars, cacheVars, taskVars, assetVars, matcherVars, batchVars, limiterVars, boundaryVars, processVars >>

\* The worker takes a message whose id it holds as revoked and discards it.
WorkerDiscard(id) ==
    /\ id \in queue
    /\ id \in revoked
    /\ queue' = queue \ {id}
    /\ backend' = Put(backend, id, "REVOKED")
    /\ UNCHANGED << ctl, revoked, sent, cancelledPending, poll >>
    /\ UNCHANGED << engineVars, cacheVars, taskVars, assetVars, matcherVars, batchVars, limiterVars, boundaryVars, processVars >>

\* A started task returns or raises.
WorkerFinish(id) ==
    /\ id \in DOMAIN backend
    /\ backend[id] = "STARTED"
    /\ \E st \in {"SUCCESS", "FAILURE"} : backend' = [ backend EXCEPT ![id] = st ]
    /\ UNCHANGED << queue, ctl, revoked, sent, cancelledPending, poll >>
    /\ UNCHANGED << engineVars, cacheVars, taskVars, assetVars, matcherVars, batchVars, limiterVars, boundaryVars, processVars >>

\* DELETE /tasks/{task_id} -> BackgroundProcessor.revoke_task: the revoke
\* command is broadcast to the workers (no reply is awaited, no state is
\* read or written) and the endpoint answers "cancelled successfully".
CancelTask(id, terminate) ==
    /\ \A m \in ctl : m.id # id
    /\ id \notin revoked
    /\ ctl' = ctl \cup { [ id |-> id, terminate |-> terminate ] }
    /\ cancelledPending' = IF id \in queue /\ ResultStatus(id) = "PENDING"
                           THEN cancelledPending \cup {id} ELSE cancelledPending
    /\ UNCHANGED << backend, queue, revoked, sent, poll >>
    /\ UNCHANGED << engineVars, cacheVars, taskVars, assetVars, matcherVars, batchVars, limiterVars, boundaryVars, processVars >>

\* The worker receives a revoke broadcast: it remembers the id, and with
\* terminate it kills the task if that is running.
WorkerReceiveRevoke(m) ==
    /\ m \in ctl
    /\ ctl' = ctl \ {m}
    /\ revoked' = revoked \cup {m.id}
    /\ backend' = IF m.terminate /\ m.id \in DOMAIN backend /\ backend[m.id] = "STARTED"
                  THEN [ backend EXCEPT ![m.id] = "REVOKED" ] ELSE backend
    /\ UNCHANGED << queue, sent, cancelledPending, poll >>
    /\ UNCHANGED << engineVars, cacheVars, taskVars, assetVars, matcherVars, batchVars, limiterVars, boundaryVars, processVars >>

\* GET /tasks/{task_id}/status: 'UNKNOWN' raises HTTPException(404) inside
\* the endpoint's try block, whose `except Exception` turns it into a 500.
StatusEndpoint(id, backendUp) ==
    LET status == GetTaskStatus(id, backendUp)
    IN  /\ poll' = [ id |-> id, enqueued |-> id \in sent,
                     http |-> IF status = "UNKNOWN" THEN 500 ELSE 200,
                     status |-> IF status = "UNKNOWN" THEN None ELSE status ]
        /\ UNCHANGED << backend, queue, ctl, revoked, sent, cancelledPending >>
        /\ UNCHANGED << engineVars, cacheVars, taskVars, assetVars, matcherVars, batchVars, limiterVars, boundaryVars, processVars >>

OrchNext ==
    \/ \E id \in TaskIds : SendTask(id)
    \/ \E id \in TaskIds : WorkerStart(id)
    \/ \E id \in TaskIds : WorkerDiscard(id)
    \/ \E id \in TaskIds : WorkerFinish(id)
    \/ \E id \in TaskIds, t \in BOOLEAN : CancelTask(id, t)
    \/ \E m \in ctl : WorkerReceiveRevoke(m)
    \/ \E id \in TaskIds, up \in BOOLEAN : StatusEndpoint(id, up)

(***************************************************************************)
(*                        ASSET PRESERVATION                               *)
(***************************************************************************)

\* Sizes are counted in chunks of the streamed download (chunk_size=8192);
\* the caps 10 * 1024 * 1024 and 50 * 1024 * 1024 are scaled down to a few
\* chunks, the thumbnail cap below the content cap.
ThumbnailCap == 2
ContentCap == 3
MaxChunks == 4          \* the largest remote object
NoContentLength == -1   \* response.headers.get('content-length') is None

\* What the remote server does with one GET: ok is false for a connection
\* error or a non-2xx status; declared is the Content-Length header, which
\* may be absent or differ from the body; actual is the size of the object
\* and received the part of it that arrives before the connection ends.
AssetResponses ==
    { r \in [ ok : BOOLEAN, content_type : {"image/png", "text/html"},
              declared : {NoContentLength} \cup (0..MaxChunks),
              actual : 0..MaxChunks, received : 0..MaxChunks ] :
        r.received <= r.actual }

\* content_type.startswith('image/')
IsImageType(ct) == ct = "image/png"

\* A header check with one chunk of slack.
DeclaredExceedsByTwo(declared, cap) ==
    declared # NoContentLength /\ declared > cap + 1

\* content_length and int(content_length) > cap
DeclaredExceeds(declared, cap) == declared # NoContentLength /\ declared > cap

\* A length check with one chunk of slack.
LengthExceedsByTwo(n, cap) == n > cap + 1

\* len(data) > cap
LengthExceeds(n, cap) == n > cap

\* The derived local paths (a function of the URL, the item and the platform).
ThumbnailPath == "oembed/thumbnails/thumbnail_1_vimeo_0a1b.jpg"
ContentPath == "oembed/content/content_1_vimeo_0a1b.jpg"

\* R2StorageService.upload_file(file_content, filename, content_type=None,
\* metadata=None): its parameters, and the ones without a default.
UploadFileParams == {"file_content", "filename", "content_type", "metadata"}
UploadFileRequired == {"file_content", "filename"}
\* The keywords both download functions pass to upload_file.
UploadKeywords == {"file_data", "file_path", "content_type"}

\* Python binds the keyword arguments of a call before the body runs: an
\* unknown keyword or a missing required parameter raises TypeError.
CallBinds(keywords) ==
    keywords \subseteq UploadFileParams /\ UploadFileRequired \subseteq keywords

\* One call r2_storage.upload_file(**keywords) with `size` chunks of data.
\* The body of upload_file catches its own errors and returns a dict, so the
\* call raises only when it cannot be bound; it writes when the store is up.
UploadFile(keywords, path, size, storeUp) ==
    IF ~CallBinds(keywords)
    THEN [ raised |-> TRUE, written |-> {} ]
    ELSE [ raised |-> FALSE,
           written |-> IF storeUp THEN { [ path |-> path, size |-> size ] } ELSE {} ]

\* The outcome of a download function: the returned path (None on failure),
\* whether upload_file was called, and the objects written.
AssetOutcome(path, called, written) ==
    [ path |-> path, called |-> called, written |-> written ]
AssetNone == AssetOutcome(None, FALSE, {})

\* The upload at the end of both download functions, inside their try block.
StoreAndReturn(path, size, storeUp) ==
    LET up == UploadFile(UploadKeywords, path, size, storeUp)
    IN  AssetOutcome(IF up.raised THEN None ELSE path, TRUE, up.written)

\* download_and_store_thumbnail: client.get reads the whole body before any
\* check is made.
DownloadAndStoreThumbnail(r, storeUp) ==
    CASE ~r.ok \/ r.received < r.actual               -> AssetNone
      [] ~IsImageType(r.content_type)                 -> AssetNone
      [] DeclaredExceeds(r.declared, ThumbnailCap)    -> AssetNone
      [] LengthExceeds(r.actual, ThumbnailCap)        -> AssetNone
      [] OTHER -> StoreAndReturn(ThumbnailPath, r.actual, storeUp)

\* The loop over response.aiter_bytes(): chunk after chunk is appended and
\* the length is checked after each; the result is the number of chunks
\* held when the loop ends, "too_large" when the check fires, or "raise"
\* when the connection ends before the object is complete.
RECURSIVE StreamLoop(_, _, _)
StreamLoop(r, held, cap) ==
    IF held = r.received
    THEN IF r.received < r.actual THEN "raise" ELSE "complete"
    ELSE IF LengthExceeds(held + 1, cap) THEN "too_large"
         ELSE StreamLoop(r, held + 1, cap)

\* download_and_store_content
DownloadAndStoreContent(r, storeUp) ==
    CASE ~r.ok                                        -> AssetNone
      [] DeclaredExceeds(r.declared, ContentCap)      -> AssetNone
      [] StreamLoop(r, 0, ContentCap) # "complete"    -> AssetNone
      [] OTHER -> StoreAndReturn(ContentPath, r.actual, storeUp)

\* The extraction results the success branch works on: with or without a
\* thumbnail, a photo with its content url or a video.
AssetEmbeds ==
    { OEmbedResponse(t, "vimeo", "123", "Vimeo", "https://vimeo.com/", "T", th, u,
                     IF t = "video" THEN "<iframe>" ELSE None) :
        t \in {"photo", "video"}, th \in {None, "http://img"},
        u \in {None, "http://photo"} }

\* str(x) if x else None, for an Optional[HttpUrl] field
StrOrNone(f) == IF f.cls = "NoneType" THEN None ELSE f.s

\* The OEmbedData row written by the success branch (create or update).
SuccessRecord(o, local_thumbnail_path, local_content_path) ==
    [ extraction_status |-> "success", oembed_type |-> o.type,
      thumbnail_url |-> StrOrNone(o.thumbnail_url),
      content_url |-> StrOrNone(o.url),
      local_thumbnail_path |-> local_thumbnail_path,
      local_content_path |-> local_content_path ]

NoRecord == [ extraction_status |-> "pending", oembed_type |-> None,
              thumbnail_url |-> None, content_url |-> None,
              local_thumbnail_path |-> None, local_content_path |-> None ]

\* A selection without the fallback: only a preserved thumbnail is served.
LocalOnlyPreviewUrl(rec) ==
    IF rec.local_thumbnail_path # None THEN "local" ELSE None

\* walls.py, preview_url of an item: the preserved thumbnail when there is
\* one, else the remote thumbnail URL ("local" stands for /api/files/<path>).
PreviewUrl(rec) ==
    IF rec.local_thumbnail_path # None THEN "local" ELSE rec.thumbnail_url

NoAssetResponse == [ ok |-> FALSE, content_type |-> "text/html",
                     declared |-> NoContentLength, actual |-> 0, received |-> 0 ]

IdleAsset == [ pc |-> "idle", embed |-> NoneResp, storeUp |-> FALSE,
               last |-> None, resp |-> NoAssetResponse, out |-> AssetNone,
               thumb |-> None, content |-> None, ret |-> None,
               record |-> NoRecord ]

AssetInit == asset = IdleAsset /\ blob = {}

\* get_oembed_data returned a response: the success branch begins.
AssetBegin ==
    /\ asset.pc = "idle"
    /\ \E o \in AssetEmbeds, up \in BOOLEAN :
          asset' = [ IdleAsset EXCEPT !.pc = "thumbnail", !.embed = o, !.storeUp = up ]
    /\ blob' = {}
    /\ UNCHANGED << engineVars, cacheVars, taskVars, orchVars, matcherVars, batchVars, limiterVars, boundaryVars, processVars >>

\* if oembed_data.thumbnail_url: download_and_store_thumbnail(...)
ThumbnailStep ==
    /\ asset.pc = "thumbnail"
    /\ IF asset.embed.thumbnail_url.cls = "NoneType"
       THEN /\ asset' = [ asset EXCEPT !.pc = "content" ]
            /\ blob' = blob
       ELSE \E r \in AssetResponses :
              LET out == DownloadAndStoreThumbnail(r, asset.storeUp)
              IN  /\ asset' = [ asset EXCEPT !.pc = "content", !.last = "thumbnail",
                                             !.resp = r, !.out = out,
                                             !.thumb = out.path ]
                  /\ blob' = blob \cup out.written
    /\ UNCHANGED << engineVars, cacheVars, taskVars, orchVars, matcherVars, batchVars, limiterVars, boundaryVars, processVars >>

\* if oembed_data.type == "photo" and oembed_data.url:
\*     download_and_store_content(...)
ContentStep ==
    /\ asset.pc = "content"
    /\ IF ~(asset.embed.type = "photo" /\ asset.embed.url.cls # "NoneType")
       THEN /\ asset' = [ asset EXCEPT !.pc = "record" ]
            /\ blob' = blob
       ELSE \E r \in AssetResponses :
              LET out == DownloadAndStoreContent(r, asset.storeUp)
              IN  /\ asset' = [ asset EXCEPT !.pc = "record", !.last = "content",
                                             !.resp = r, !.out = out,
                                             !.content = out.path ]
                  /\ blob' = blob \cup out.written
    /\ UNCHANGED << engineVars, cacheVars, taskVars, orchVars, matcherVars, batchVars, limiterVars, boundaryVars, processVars >>

\* The record is created or updated, the item is marked, the transaction is
\* committed and process_oembed_background returns True.
RecordStep ==
    /\ asset.pc = "record"
    /\ asset' = [ asset EXCEPT !.pc = "done", !.ret = "True",
                    !.record = SuccessRecord(asset.embed, asset.thumb, asset.content) ]
    /\ blob' = blob
    /\ UNCHANGED << engineVars, cacheVars, taskVars, orchVars, matcherVars, batchVars, limiterVars, boundaryVars, processVars >>

\* The next item is processed.
AssetReset ==
    /\ asset.pc = "done"
    /\ asset' = IdleAsset
    /\ blob' = {}
    /\ UNCHANGED << engineVars, cacheVars, taskVars, orchVars, matcherVars, batchVars, limiterVars, boundaryVars, processVars >>

AssetNext == AssetBegin \/ ThumbnailStep \/ ContentStep \/ RecordStep \/ AssetReset

(***************************************************************************)
(*                         PROVIDER MATCHING                               *)
(***************************************************************************)

\* URLs and schemes are sequences of tokens. In a scheme "*" is the wildcard
\* and "." is the dot of a host name; in a URL "." and "X" are tokens of one
\* character, every other token is a run of characters without a dot.
OneChar == {".", "X"}

\* Does the URL match the scheme as the provider registry means it: "*"
\* stands for any run of characters, everything else for itself.
RECURSIVE GlobMatch(_, _)
GlobMatch(scheme, url) ==
    IF scheme = << >> THEN url = << >>
    ELSE IF Head(scheme) = "*"
    THEN \/ GlobMatch(Tail(scheme), url)
         \/ url # << >> /\ GlobMatch(scheme, Tail(url))
    ELSE /\ url # << >>
         /\ Head(url) = Head(scheme)
         /\ GlobMatch(Tail(scheme), Tail(url))

\* re.match("^" + scheme.replace("*", ".*") + "$", url): the scheme is used
\* as a regular expression without escaping, so its dots match any character.
RECURSIVE RegexMatch(_, _)
RegexMatch(scheme, url) ==
    IF scheme = << >> THEN url = << >>
    ELSE IF Head(scheme) = "*"
    THEN \/ RegexMatch(Tail(scheme), url)
         \/ url # << >> /\ RegexMatch(scheme, Tail(url))
    ELSE IF Head(scheme) = "."
    THEN /\ url # << >>
         /\ Head(url) \in OneChar
         /\ RegexMatch(Tail(scheme), Tail(url))
    ELSE /\ url # << >>
         /\ Head(url) = Head(scheme)
         /\ RegexMatch(Tail(scheme), Tail(url))

\* OEmbedProvider: a name and its schemes, in the order of the list.
Provider(name, schemes) == [ name |-> name, schemes |-> schemes ]

YoutubeProvider ==
    Provider("YouTube",
        << << "https://", "www", ".", "youtube", ".", "com", "/watch", "*" >>,
           << "https://", "www", ".", "youtube", ".", "com", "/v/", "*" >>,
           << "https://", "youtu", ".", "be", "/", "*" >> >>)
VimeoProvider ==
    Provider("Vimeo",
        << << "https://", "vimeo", ".", "com", "/", "*" >>,
           << "https://", "player", ".", "vimeo", ".", "com", "/video/", "*" >> >>)
TwitterProvider ==
    Provider("X (Twitter)",
        << << "https://", "twitter", ".", "com", "/", "*", "/status/", "*" >>,
           << "https://", "x", ".", "com", "/", "*", "/status/", "*" >> >>)
\* A provider built for a test, whose scheme overlaps Vimeo's.
OverlapProvider ==
    Provider("Overlap",
        << << "https://", "vimeo", ".", "com", "/", "123", "*" >> >>)

\* self.providers.values(), in insertion order: the registry of
\* _load_providers, and two registries with the overlapping test provider
\* registered after or before Vimeo.
Registered == << YoutubeProvider, VimeoProvider, TwitterProvider >>
Registries ==
    { Registered,
      << YoutubeProvider, VimeoProvider, OverlapProvider, TwitterProvider >>,
      << OverlapProvider, YoutubeProvider, VimeoProvider, TwitterProvider >> }

MatcherHosts ==
    { << "www", ".", "youtube", ".", "com" >>, << "youtu", ".", "be" >>,
      << "vimeo", ".", "com" >>, << "vimeo", "X", "com" >>,
      << "player", ".", "vimeo", ".", "com" >>, << "twitter", ".", "com" >>,
      << "x", ".", "com" >>, << "example", ".", "com" >> }
MatcherPaths ==
    { << "/watch", "?v=abc" >>, << "/v/", "abc" >>, << "/", "123" >>,
      << "/", "123", "/", "likes" >>, << "/video/", "1" >>,
      << "/", "u", "/status/", "1" >>, << "/" >> }
MatcherUrls == { << "https://" >> \o h \o p : h \in MatcherHosts, p \in MatcherPaths }

\* any(re.match(...) for scheme in provider.schemes), as the inner loop
SchemesMatch(provider, url) ==
    \E i \in 1..Len(provider.schemes) : RegexMatch(provider.schemes[i], url)

\* A matcher that lets the provider registered last win.
RECURSIVE LastMatchFrom(_, _, _)
LastMatchFrom(providers, i, url) ==
    IF i < 1 THEN None
    ELSE IF SchemesMatch(providers[i], url) THEN providers[i].name
    ELSE LastMatchFrom(providers, i - 1, url)

\* The outer loop of _identify_provider from the i-th provider on: the
\* first provider with a matching scheme is returned, None after the last.
RECURSIVE MatchFrom(_, _, _)
MatchFrom(providers, i, url) ==
    IF i > Len(providers) THEN None
    ELSE IF SchemesMatch(providers[i], url) THEN providers[i].name
    ELSE MatchFrom(providers, i + 1, url)

LastMatchProvider(providers, url) == LastMatchFrom(providers, Len(providers), url)

\* _identify_provider (the provider is named by its name)
MatchProvider(providers, url) == MatchFrom(providers, 1, url)

IdleMatcher == [ pc |-> "idle", providers |-> Registered,
                 url |-> << "https://" >>, result |-> None ]

MatcherInit == matcher = IdleMatcher

\* _identify_provider(url) is called on a service with these providers.
MatcherCall ==
    /\ matcher.pc = "idle"
    /\ \E reg \in Registries, u \in MatcherUrls :
          matcher' = [ pc |-> "called", providers |-> reg, url |-> u, result |-> None ]
    /\ UNCHANGED << engineVars, cacheVars, taskVars, orchVars, assetVars, batchVars, limiterVars, boundaryVars, processVars >>

\* The call returns; the service is ready for the next call.
MatcherReturn ==
    /\ matcher.pc = "called"
    /\ matcher' = [ matcher EXCEPT !.pc = "returned",
                      !.result = MatchProvider(matcher.providers, matcher.url) ]
    /\ UNCHANGED << engineVars, cacheVars, taskVars, orchVars, assetVars, batchVars, limiterVars, boundaryVars, processVars >>

\* The same service is called again.
MatcherReset ==
    /\ matcher.pc = "returned"
    /\ matcher' = IdleMatcher
    /\ UNCHANGED << engineVars, cacheVars, taskVars, orchVars, assetVars, batchVars, limiterVars, boundaryVars, processVars >>

MatcherNext == MatcherCall \/ MatcherReturn \/ MatcherReset

(***************************************************************************)
(*                          BATCH EXTRACTION                               *)
(***************************************************************************)

MaxUrls == 3        \* the longest list of URLs of a batch
BatchUrlLists == UNION { [1..n -> CacheUrls] : n \in 1..MaxUrls }

\* What one of the gathered coroutines meets: the network is down or up for
\* the URL, or the coroutine raises past the handlers of get_oembed_data.
UpDown == [ std |-> StdFail, page |-> PageFail, head |-> "Fail" ]
UpFine == [ std |-> [ ok |-> TRUE, type |-> "photo", html |-> None,
                      url |-> "http://photo", platform |-> None ],
            page |-> [ ok |-> TRUE, title |-> "T", image |-> "http://img" ],
            head |-> "Fail" ]
BatchInputs == { [ raises |-> FALSE, up |-> UpDown ], [ raises |-> FALSE, up |-> UpFine ],
                 [ raises |-> TRUE, up |-> UpDown ] }

\* The value one coroutine leaves in its future: a result or an exception.
TaskOutcome(u, inp) ==
    IF inp.raises THEN [ exc |-> TRUE, value |-> NoneResp ]
    ELSE [ exc |-> FALSE, value |-> GetOEmbedData(u, inp.up) ]

\* A join that hands the outcomes over in the order of completion.
InCompletionOrder(slots, order) == [ i \in 1..Len(order) |-> slots[order[i]] ]

\* asyncio.gather(*tasks, return_exceptions=True): the outcomes in the order
\* of the awaitables passed in, whatever the order of completion.
Gather(slots, order) == [ i \in 1..Len(order) |-> slots[i] ]

\* { url: result if not isinstance(result, Exception) else None
\*   for url, result in zip(urls, results) }: a later position of the same
\* URL replaces an earlier one.
RECURSIVE ZipDict(_, _, _)
ZipDict(urls, results, i) ==
    IF i = 0 THEN NoFn
    ELSE Put(ZipDict(urls, results, i - 1), urls[i],
             IF results[i].exc THEN NoneResp ELSE results[i].value)

IdleBatch == [ pc |-> "idle", urls |-> << >>, ins |-> NoFn, slots |-> NoFn,
               order |-> << >>, out |-> NoFn ]

BatchInit == batch = IdleBatch

\* batch_get_oembed_data(urls): one coroutine per position of the list is
\* created and all are handed to gather at once.
BatchGather ==
    /\ batch.pc = "idle"
    /\ \E us \in BatchUrlLists :
          batch' = [ IdleBatch EXCEPT !.pc = "gathering", !.urls = us ]
    /\ UNCHANGED << engineVars, cacheVars, taskVars, orchVars, assetVars, matcherVars, limiterVars, boundaryVars, processVars >>

\* The positions whose extraction is in flight.
InFlight ==
    IF batch.pc = "gathering" THEN DOMAIN batch.urls \ DOMAIN batch.slots ELSE {}

\* One of the extractions in flight completes.
BatchComplete ==
    /\ batch.pc = "gathering"
    /\ \E i \in InFlight, inp \in BatchInputs :
          batch' = [ batch EXCEPT !.ins = Put(@, i, inp),
                                  !.slots = Put(@, i, TaskOutcome(batch.urls[i], inp)),
                                  !.order = Append(@, i) ]
    /\ UNCHANGED << engineVars, cacheVars, taskVars, orchVars, assetVars, matcherVars, limiterVars, boundaryVars, processVars >>

\* All have completed: gather returns and the dictionary is built.
BatchJoin ==
    /\ batch.pc = "gathering"
    /\ InFlight = {}
    /\ batch' = [ batch EXCEPT !.pc = "returned",
                    !.out = ZipDict(batch.urls, Gather(batch.slots, batch.order),
                                    Len(batch.urls)) ]
    /\ UNCHANGED << engineVars, cacheVars, taskVars, orchVars, assetVars, matcherVars, limiterVars, boundaryVars, processVars >>

\* The caller takes the dictionary.
BatchReset ==
    /\ batch.pc = "returned"
    /\ batch' = IdleBatch
    /\ UNCHANGED << engineVars, cacheVars, taskVars, orchVars, assetVars, matcherVars, limiterVars, boundaryVars, processVars >>

BatchNext == BatchGather \/ BatchComplete \/ BatchJoin \/ BatchReset

(***************************************************************************)
(*                            RATE LIMITER                                 *)
(***************************************************************************)

\* The clock counts ticks; the window of 60 seconds and the ceiling of 60
\* requests per minute are scaled down, the sleep of 1 second stays shorter
\* than the window.
WindowTicks == 3
RequestsPerMinute == 2
SleepTicks == 1
NumCallers == 3     \* concurrent callers of analyze_content
MaxClock == 4
MaxCalls == 4       \* calls of analyze_content in a run
Callers == 1..NumCallers

\* Time stamps are kept as a bag: time -> number of stamps.
NoStamps == [ t \in {} |-> 0 ]
AddStamp(stamps, t) ==
    [ x \in DOMAIN stamps \cup {t} |->
        IF x \in DOMAIN stamps THEN stamps[x] + (IF x = t THEN 1 ELSE 0) ELSE 1 ]
RECURSIVE CountStamps(_)
CountStamps(stamps) ==
    IF DOMAIN stamps = {} THEN 0
    ELSE LET t == CHOOSE x \in DOMAIN stamps : TRUE
         IN  stamps[t] + CountStamps([ x \in DOMAIN stamps \ {t} |-> stamps[x] ])

\* [ts for ts in stamps if (now - ts).total_seconds() < 60]
WithinWindow(stamps, t) ==
    [ x \in { y \in DOMAIN stamps : t - y < WindowTicks } |-> stamps[x] ]

\* len(self._request_timestamps) >= self.rate_limit_requests_per_minute
LimitReached(stamps) == CountStamps(stamps) >= RequestsPerMinute

LimiterInit ==
    /\ limiter = [ now |-> 0, stamps |-> NoStamps, calls |-> 0,
                   pc |-> [ c \in Callers |-> "idle" ],
                   wake |-> [ c \in Callers |-> 0 ] ]
    /\ issued = NoStamps

LimiterFrame ==
    UNCHANGED << engineVars, cacheVars, taskVars, orchVars, assetVars, matcherVars,
                 batchVars, boundaryVars, processVars >>

\* Time passes.
LimiterTick ==
    /\ limiter.now < MaxClock
    /\ limiter' = [ limiter EXCEPT !.now = @ + 1 ]
    /\ UNCHANGED issued
    /\ LimiterFrame

\* analyze_content calls _check_rate_limit up to its await: the old stamps
\* are dropped; at the ceiling the caller goes to sleep for one second,
\* below it the check returns at once.
CheckRateLimit(c) ==
    LET kept == WithinWindow(limiter.stamps, limiter.now)
    IN  /\ limiter.pc[c] = "idle"
        /\ limiter.calls < MaxCalls
        /\ limiter' = [ limiter EXCEPT
                          !.calls = @ + 1,
                          !.stamps = kept,
                          !.pc[c] = IF LimitReached(kept) THEN "sleeping" ELSE "ready",
                          !.wake[c] = IF LimitReached(kept) THEN limiter.now + SleepTicks
                                      ELSE 0 ]
        /\ UNCHANGED issued
        /\ LimiterFrame

\* asyncio.sleep(1) is over: _check_rate_limit returns without looking at
\* the stamps again.
WakeUp(c) ==
    /\ limiter.pc[c] = "sleeping"
    /\ limiter.now >= limiter.wake[c]
    /\ limiter' = [ limiter EXCEPT !.pc[c] = "ready", !.wake[c] = 0 ]
    /\ UNCHANGED issued
    /\ LimiterFrame

\* client.messages.create(...) is issued.
IssueCall(c) ==
    /\ limiter.pc[c] = "ready"
    /\ limiter' = [ limiter EXCEPT !.pc[c] = "calling" ]
    /\ issued' = AddStamp(issued, limiter.now)
    /\ LimiterFrame

\* The upstream call returns and its time stamp is appended, or it raises
\* and the except branch is taken without a stamp.
CallReturns(c) ==
    /\ limiter.pc[c] = "calling"
    /\ \E ok \in BOOLEAN :
          limiter' = [ limiter EXCEPT
                         !.pc[c] = "idle",
                         !.stamps = IF ok THEN AddStamp(@, limiter.now) ELSE @ ]
    /\ UNCHANGED issued
    /\ LimiterFrame

LimiterNext ==
    \/ LimiterTick
    \/ \E c \in Callers : CheckRateLimit(c)
    \/ \E c \in Callers : WakeUp(c)
    \/ \E c \in Callers : IssueCall(c)
    \/ \E c \in Callers : CallReturns(c)

(***************************************************************************)
(*                    EXCEPTIONS AT THE ENGINE BOUNDARY                    *)
(***************************************************************************)

\* A string that is no URL: urlparse raises ValueError on it and no provider
\* scheme matches it.
U_BAD == "http://[bad"
BoundaryUrls == { U_YT, U_VIMEO, U_PIN, U_TT, U_BLOG, U_BAD }

\* The statements of the engine that may raise, besides what the strategies
\* catch themselves: the scheme regexes of _identify_provider, a strategy
\* function called by get_oembed_data, a strategy called by
\* _extract_custom_platform, the metadata request of _fallback_extraction
\* and the construction of its OEmbedResponse.
FaultPoints == { "identify", "strategy", "custom", "metadata", "construct" }
FaultSets == SUBSET FaultPoints
BoundaryUpstreams == { up \in Upstreams : up.head = U_PIN /\ up.std.platform = None }

\* An exception travelling up the call stack, as an outcome of a function.
Raised == [ NoneResp EXCEPT !.type = "Raise" ]
IsRaise(o) == o.type = "Raise"
\* try: body / except Exception: handler
TryExcept(body, handler) == IF IsRaise(body) THEN handler ELSE body

\* The body of _fallback_extraction, outside its try.
FallbackBody(u, up, faults) ==
    IF "metadata" \in faults THEN Raised
    ELSE IF u = U_BAD THEN NoneResp
    ELSE IF Truthy(up.page) /\ ("construct" \in faults \/ ~UrlFieldOk(up.page.image))
         THEN Raised
    ELSE FallbackExtraction(u, up)

\* _fallback_extraction without its except branch.
FallbackUnguarded(u, up, faults) == FallbackBody(u, up, faults)

\* _fallback_extraction
FallbackGuarded(u, up, faults) == TryExcept(FallbackBody(u, up, faults), NoneResp)

\* The body of _extract_custom_platform, outside its try.
CustomBody(u, up, faults) ==
    IF u = U_BAD THEN Raised
    ELSE IF CustomDomain(u) = None THEN FallbackGuarded(u, up, faults)
    ELSE IF "custom" \in faults THEN Raised
    ELSE ExtractCustomPlatform(u, up)

\* _extract_custom_platform
CustomGuarded(u, up, faults) ==
    TryExcept(CustomBody(u, up, faults), FallbackGuarded(u, up, faults))

\* The body of get_oembed_data, outside its try.
EngineBody(u, up, faults) ==
    IF "identify" \in faults THEN Raised
    ELSE IF IdentifyProvider(u) = None THEN CustomGuarded(u, up, faults)
    ELSE IF "strategy" \in faults THEN Raised
    ELSE GetOEmbedData(u, up)

\* get_oembed_data, with what it lets through to its caller.
GetOEmbedDataGuarded(u, up, faults) ==
    TryExcept(EngineBody(u, up, faults), CustomGuarded(u, up, faults))

IdleBoundary == [ pc |-> "idle", url |-> U_YT,
                  up |-> [ std |-> StdFail, page |-> PageFail, head |-> U_PIN ],
                  faults |-> {}, out |-> NoneResp ]

BoundaryInit == boundary = IdleBoundary

BoundaryFrame ==
    UNCHANGED << engineVars, cacheVars, taskVars, orchVars, assetVars, matcherVars,
                 batchVars, limiterVars, processVars >>

\* A caller awaits get_oembed_data(url); faults are the statements that
\* will raise during this call.
BoundaryCall ==
    /\ boundary.pc = "idle"
    /\ \E u \in BoundaryUrls, up \in BoundaryUpstreams, faults \in FaultSets :
          boundary' = [ pc |-> "called", url |-> u, up |-> up, faults |-> faults,
                        out |-> NoneResp ]
    /\ BoundaryFrame

\* The call is over: a result, None, or an exception in the caller.
BoundaryReturn ==
    /\ boundary.pc = "called"
    /\ boundary' = [ boundary EXCEPT
                       !.pc = "returned",
                       !.out = GetOEmbedDataGuarded(boundary.url, boundary.up,
                                                    boundary.faults) ]
    /\ BoundaryFrame

BoundaryReset ==
    /\ boundary.pc = "returned"
    /\ boundary' = IdleBoundary
    /\ BoundaryFrame

BoundaryNext == BoundaryCall \/ BoundaryReturn \/ BoundaryReset

(***************************************************************************)
(*               PROCESS ENDPOINT AND BACKGROUND RUNS                      *)
(***************************************************************************)

MaxRuns == 3        \* runs of process_oembed_background in a behaviour
RunIds == 1..MaxRuns

\* The oembed_data row of the item; share_item_id is unique, so there is at
\* most one. The asset downloads of a run give None (see the asset section).
NoRow == [ exists |-> FALSE, extraction_status |-> None, oembed_type |-> None,
           local_thumbnail_path |-> None, local_content_path |-> None ]
\* OEmbedData(oembed_type="link", extraction_status="failed", ...)
FailedRow == [ exists |-> TRUE, extraction_status |-> "failed", oembed_type |-> "link",
               local_thumbnail_path |-> None, local_content_path |-> None ]
\* The row the success branch writes, and the one share creation writes.
SuccessRow(type) ==
    [ exists |-> TRUE, extraction_status |-> "success", oembed_type |-> type,
      local_thumbnail_path |-> None, local_content_path |-> None ]

\* The unit of work of the ORM session: an UPDATE carries the columns whose
\* value differs from the one the session loaded, and only those.
Flush(db, loaded, new) ==
    [ c \in DOMAIN db |-> IF new[c] # loaded[c] THEN new[c] ELSE db[c] ]

\* The failure branches leave the item as it is.
LeaveUnprocessed(it) == it
\* share_item.oembed_processed = True
MarkProcessed(it) == [ it EXCEPT !.oembed_processed = TRUE ]

\* The failure branch writes a failed row whatever it found.
RowMarkedFailed(existing, row) == FailedRow
\* `if not existing_oembed: db.add(OEmbedData(... "failed" ...))`
RowAfterFailure(existing, row) == IF existing THEN row ELSE FailedRow

\* No share item yet.
NoItem == [ exists |-> FALSE, oembed_processed |-> FALSE, has_oembed |-> FALSE ]

NoRun == [ pc |-> "none", force |-> FALSE, via |-> "none", loaded |-> NoItem,
           existing |-> FALSE, outcome |-> "none" ]
IdlePreq == [ pc |-> "idle", force |-> FALSE, loaded |-> NoItem,
              run |-> 0, status |-> "none" ]

ProcessInit ==
    /\ shareItem = NoItem
    /\ oembedRow = NoRow
    /\ preq = IdlePreq
    /\ runs = [ i \in RunIds |-> NoRun ]
    /\ nextRun = 1

ProcessFrame ==
    UNCHANGED << engineVars, cacheVars, taskVars, orchVars, assetVars, matcherVars,
                 batchVars, limiterVars, boundaryVars >>

\* POST /share creates the item: with its row, has_oembed and
\* oembed_processed when the synchronous extraction gave data, without a row
\* and unprocessed otherwise.
HandleShare(data) ==
    /\ ~shareItem.exists
    /\ shareItem' = [ exists |-> TRUE, oembed_processed |-> data, has_oembed |-> data ]
    /\ oembedRow' = IF data THEN SuccessRow("video") ELSE NoRow
    /\ UNCHANGED << preq, runs, nextRun >>
    /\ ProcessFrame

\* process_share_item_oembed up to background_tasks.add_task: the item is
\* selected; an item already processed is answered at once unless
\* force_refresh, otherwise the run is added to the response's tasks.
ProcessCheck(f) ==
    /\ shareItem.exists
    /\ preq.pc = "idle"
    /\ nextRun <= MaxRuns
    /\ IF shareItem.oembed_processed /\ ~f
       THEN /\ preq' = [ IdlePreq EXCEPT !.force = f, !.loaded = shareItem,
                                         !.status = "already_processed" ]
            /\ UNCHANGED << runs, nextRun >>
       ELSE /\ preq' = [ pc |-> "checked", force |-> f, loaded |-> shareItem,
                         run |-> nextRun, status |-> "none" ]
            /\ runs' = [ runs EXCEPT ![nextRun] =
                           [ NoRun EXCEPT !.pc = "added", !.force = f,
                                          !.via = "endpoint" ] ]
            /\ nextRun' = nextRun + 1
    /\ UNCHANGED << shareItem, oembedRow >>
    /\ ProcessFrame

\* ... share_item.oembed_processed = False, commit, and the response
\* "queued"; the background task may start once the response is out.
ProcessCommit ==
    /\ preq.pc = "checked"
    /\ shareItem' = Flush(shareItem, preq.loaded,
                          [ preq.loaded EXCEPT !.oembed_processed = FALSE ])
    /\ runs' = [ runs EXCEPT ![preq.run].pc = "queued" ]
    /\ preq' = [ preq EXCEPT !.pc = "idle", !.status = "queued" ]
    /\ UNCHANGED << oembedRow, nextRun >>
    /\ ProcessFrame

\* refresh_oembed_data_batch([item_id]) on a Celery worker: a run with
\* force_refresh=True begins.
BatchRefresh ==
    /\ shareItem.exists
    /\ nextRun <= MaxRuns
    /\ runs' = [ runs EXCEPT ![nextRun] =
                   [ NoRun EXCEPT !.pc = "queued", !.force = TRUE, !.via = "batch" ] ]
    /\ nextRun' = nextRun + 1
    /\ UNCHANGED << shareItem, oembedRow, preq >>
    /\ ProcessFrame

\* process_oembed_background up to the await of get_oembed_data: the item
\* and its row are selected; a row that exists ends the run unless
\* force_refresh.
RunSelect(i) ==
    /\ runs[i].pc = "queued"
    /\ runs' = [ runs EXCEPT ![i] =
                   [ @ EXCEPT !.loaded = shareItem, !.existing = oembedRow.exists,
                              !.pc = IF oembedRow.exists /\ ~runs[i].force
                                     THEN "done" ELSE "extracting",
                              !.outcome = IF oembedRow.exists /\ ~runs[i].force
                                          THEN "skipped" ELSE "none" ] ]
    /\ UNCHANGED << shareItem, oembedRow, preq, nextRun >>
    /\ ProcessFrame

\* The INSERT of a second row for the item violates the unique constraint:
\* the commit raises and nothing of the transaction is written.
Conflict(r) == ~r.existing /\ oembedRow.exists

\* ... the rest of the run. extract is what get_oembed_data did: returned
\* data, returned None, or an exception came out of the await. saved tells
\* whether the except branch still got its commit through after a failed
\* commit.
RunFinish(i, extract, saved) ==
    LET r == runs[i]
        done == [ r EXCEPT !.pc = "done", !.outcome = extract ]
    IN  /\ r.pc = "extracting"
        /\ runs' = [ runs EXCEPT ![i] = done ]
        /\ CASE extract = "raise" ->
                  /\ shareItem' = Flush(shareItem, r.loaded, MarkProcessed(r.loaded))
                  /\ oembedRow' = RowAfterFailure(oembedRow.exists, oembedRow)
             [] extract # "raise" /\ Conflict(r) ->
                  /\ shareItem' = IF saved
                                  THEN Flush(shareItem, r.loaded, MarkProcessed(r.loaded))
                                  ELSE shareItem
                  /\ UNCHANGED oembedRow
             [] extract = "none" /\ ~Conflict(r) ->
                  /\ shareItem' = Flush(shareItem, r.loaded, MarkProcessed(r.loaded))
                  /\ oembedRow' = RowAfterFailure(r.existing, oembedRow)
             [] extract = "data" /\ ~Conflict(r) ->
                  /\ shareItem' = Flush(shareItem, r.loaded,
                                        [ MarkProcessed(r.loaded) EXCEPT !.has_oembed = TRUE ])
                  /\ oembedRow' = SuccessRow("rich")
        /\ UNCHANGED << preq, nextRun >>
        /\ ProcessFrame

Extracts == { "data", "none", "raise" }

ProcessNext ==
    \/ \E data \in BOOLEAN : HandleShare(data)
    \/ \E f \in BOOLEAN : ProcessCheck(f)
    \/ ProcessCommit
    \/ BatchRefresh
    \/ \E i \in RunIds : RunSelect(i)
    \/ \E i \in RunIds, e \in Extracts, saved \in BOOLEAN : RunFinish(i, e, saved)

(***************************************************************************)
(*                          SPECIFICATIONS                                 *)
(***************************************************************************)

Init == EngineInit /\ CacheInit /\ TaskInit /\ OrchInit /\ AssetInit /\ MatcherInit /\ BatchInit /\ LimiterInit /\ BoundaryInit /\ ProcessInit

\* The extraction engine alone.
SpecEngine == Init /\ [][EngineNext]_vars
\* The cache endpoints, the clock and the periodic sweep.
SpecCache == Init /\ [][CacheNext]_vars
\* One Celery extraction task.
SpecTask == Init /\ [][TaskNext]_vars
\* Task submission, the worker, status polling and cancellation.
SpecOrch == Init /\ [][OrchNext]_vars
\* The success branch of background processing with its asset downloads.
SpecAsset == Init /\ [][AssetNext]_vars
\* Calls of the provider matcher.
SpecMatcher == Init /\ [][MatcherNext]_vars
\* One batch extraction and the completions of its coroutines.
SpecBatch == Init /\ [][BatchNext]_vars
\* Concurrent callers of the rate-limited upstream client.
SpecLimiter == Init /\ [][LimiterNext]_vars
\* Calls of the engine with raising statements.
SpecBoundary == Init /\ [][BoundaryNext]_vars
\* The process endpoint, batch refreshes and the background runs.
SpecProcess == Init /\ [][ProcessNext]_vars
\* ... where a handler that has begun returns and every queued run is
\* executed to its end.
SpecProcessFair ==
    /\ SpecProcess
    /\ WF_vars(ProcessCommit)
    /\ \A i \in RunIds : WF_vars(RunSelect(i))
    /\ \A i \in RunIds :
          WF_vars(\E e \in Extracts, saved \in BOOLEAN : RunFinish(i, e, saved))

Next == EngineNext \/ CacheNext \/ TaskNext \/ OrchNext \/ AssetNext \/ MatcherNext \/ BatchNext \/ LimiterNext \/ BoundaryNext \/ ProcessNext
Spec == Init /\ [][Next]_vars

(***************************************************************************)
(*                             PROPERTIES                                  *)
(***************************************************************************)

\* C1 (SpecEngine): get_oembed_data returns None only after every strategy
\* has been exhausted: a None result implies that the generic Open-Graph /
\* Twitter-Card / <title> fallback, the last strategy, fails too for the same
\* URL and the same network state.
C1_NoneOnlyAfterFallback ==
    (engine.pc = "returned" /\ IsNone(engine.result))
        => IsNone(FallbackExtraction(engine.url, engine.up))

\* C2 (SpecCache): hit-count increments are never lost: the hit_count of a
\* stored entry equals the number of cache-hit reads of it that committed
\* since it was inserted.
C2_NoLostIncrement ==
    \A h \in DOMAIN cache : cache[h].hit_count = committedHits[h]

\* C3 (SpecCache): a lookup, in preview and in batch-preview, never returns
\* an entry whose expires_at is not later than the time of the lookup, purged
\* or not: (a) the entries a request loads at its lookup are stored and
\* expire later than now, (b) the hit_count and last_hit of a stored entry
\* change only by the commit of a request that loaded it, so never by a
\* request whose lookup missed, and (c) an answer marked cached comes from a
\* request that loaded the entry.
C3_LookupStep ==
    /\ \A r \in Reqs : \A h \in DOMAIN req'[r].loaded \ DOMAIN req[r].loaded :
          /\ h \in DOMAIN cache
          /\ cache[h].expires_at > now
    /\ \A h \in DOMAIN cache \cap DOMAIN cache' :
          (/\ cache'[h].id = cache[h].id
           /\ \/ cache'[h].hit_count # cache[h].hit_count
              \/ cache'[h].last_hit # cache[h].last_hit)
              => \E r \in Reqs : /\ h \in DOMAIN req[r].loaded
                                 /\ req[r].loaded[h].id = cache[h].id
                                 /\ req'[r] = IdleReq
    /\ answer' # answer =>
          \A u \in DOMAIN answer'.results :
              answer'.results[u].cached
                  => UrlHash(u) \in DOMAIN req[answer'.r].loaded
C3_ExpiredNeverReturned == [][C3_LookupStep]_vars

\* C3 witness: a preview looked up a URL whose stored entry, already used by
\* a hit, has expired and is not purged; the lookup missed and the request
\* went on to extraction.
C3_Witness ==
    \E r \in Reqs :
        /\ req[r].pc = "extract"
        /\ req[r].kind = "preview"
        /\ req[r].stale
        /\ req[r].loaded = NoFn
        /\ UrlHash(req[r].urls[1]) \in DOMAIN cache
        /\ cache[UrlHash(req[r].urls[1])].expires_at <= now
        /\ cache[UrlHash(req[r].urls[1])].hit_count >= 1

\* C4 (SpecCache): an expired and still stored entry is absent for writes: a
\* preview of a supported URL that met such an entry and whose extraction
\* succeeded answers like a first-time miss (the extracted data, cached
\* false, no error) and leaves an unexpired entry for the URL.
C4_ExpiredAbsentForWrites ==
    (/\ answer.kind = "preview"
     /\ answer.http # 0
     /\ answer.stale
     /\ answer.results[answer.urls[1]].error \notin {"failed", "unsupported"})
        => /\ answer.results[answer.urls[1]].error = None
           /\ ~answer.results[answer.urls[1]].cached
           /\ ~IsNone(answer.results[answer.urls[1]].oembed_data)
           /\ UrlHash(answer.urls[1]) \in DOMAIN cache
           /\ cache[UrlHash(answer.urls[1])].expires_at > now

\* C5 (SpecCache): after a cache write for a URL, the k >= 1 lookups of the
\* same URL that directly follow it all hit, each returns a payload equal
\* field for field to the extraction result that was written, and hit_count
\* is exactly k.
C5_WriteThenLookups ==
    seq.active =>
        /\ ~seq.missed
        /\ seq.k >= 1 =>
              /\ seq.last = seq.data
              /\ UrlHash(seq.url) \in DOMAIN cache
              /\ cache[UrlHash(seq.url)].hit_count = seq.k

\* C6 (SpecCache): every cache entry is written with expires_at strictly
\* later than the time of the write, at every time of the day.
C6_WriteStep ==
    \A h \in DOMAIN cache' :
        (h \notin DOMAIN cache \/ cache[h].id # cache'[h].id)
            => cache'[h].expires_at > now
C6_ExpiresAfterWrite == [][C6_WriteStep]_vars

\* C7 (SpecTask): a task whose runs failed until max_retries retries were
\* used up ends in the terminal FAILURE state, not in SUCCESS.
C7_ExhaustedTaskFails ==
    (/\ ctask.retries = max_retries
     /\ ctask.lastRun = "raised"
     /\ ctask.state \notin {"STARTED", "RETRY"})
        => ctask.state = "FAILURE"

\* C8 (SpecTask): a failed run (strategies exhausted, or processing raised)
\* never ends the task while retries remain: a task that ended on a failed
\* run has made max_retries retries.
C8_FailedRunIsRetried ==
    (/\ ctask.state \in {"SUCCESS", "FAILURE"}
     /\ ctask.lastRun \in {"exhausted", "caught", "raised"})
        => ctask.retries = max_retries

\* C9 (SpecOrch): polling the status of a task id that was never enqueued
\* answers not found (HTTP 404) and never reports PENDING or another state.
C9_UnknownIdNotFound ==
    (poll.http # 0 /\ ~poll.enqueued)
        => (poll.http = 404 /\ poll.status = None)

\* C10 (SpecOrch): a task cancelled while PENDING never enters RUNNING
\* (Celery's STARTED) and never produces a result.
C10_CancelledNeverRuns ==
    \A id \in cancelledPending :
        ResultStatus(id) \notin {"STARTED", "SUCCESS", "FAILURE"}

\* The cap that applies to the download made last.
CapOfLast == IF asset.last = "thumbnail" THEN ThumbnailCap ELSE ContentCap

\* C11 (SpecAsset): when the declared Content-Length exceeds the cap
\* (thumbnail or content), the download function returns None, does not call
\* the blob store and writes nothing.
C11_DeclaredTooLarge ==
    (asset.last # None /\ asset.resp.declared > CapOfLast)
        => /\ asset.out.path = None
           /\ ~asset.out.called
           /\ asset.out.written = {}
           /\ blob = {}

\* C11 witness: a 2xx image response whose Content-Length is over the cap
\* was handled, for a thumbnail.
C11_Witness ==
    /\ asset.last = "thumbnail"
    /\ asset.resp.ok
    /\ IsImageType(asset.resp.content_type)
    /\ asset.resp.received = asset.resp.actual
    /\ asset.resp.declared > ThumbnailCap
    /\ asset.out.path = None

\* C12 (SpecAsset): whatever the Content-Length header says, when the bytes
\* received exceed the cap the download is abandoned: None is returned and
\* the blob store is neither called nor written; and whatever is handed to
\* the blob store is a complete object within the cap.
C12_ActualTooLarge ==
    asset.last # None =>
        /\ asset.resp.received > CapOfLast
              => /\ asset.out.path = None
                 /\ ~asset.out.called
                 /\ asset.out.written = {}
        /\ asset.out.called
              => /\ asset.resp.received = asset.resp.actual
                 /\ asset.resp.actual <= CapOfLast
        /\ \A b \in blob : b.size <= ContentCap

\* C12 witness: a content download whose header is missing or understated
\* delivered more than the cap and was abandoned.
C12_Witness ==
    /\ asset.last = "content"
    /\ asset.resp.ok
    /\ asset.resp.declared <= ContentCap
    /\ asset.resp.received > ContentCap
    /\ asset.out.path = None

\* C13 (SpecAsset): when the download succeeds, the type is in the expected
\* family, the size is within the cap and the blob store accepts writes,
\* the bytes are written and the derived local path is returned.
C13_PreservedWhenAllGood ==
    (/\ asset.last # None
     /\ asset.resp.ok
     /\ asset.resp.received = asset.resp.actual
     /\ asset.last = "thumbnail" => IsImageType(asset.resp.content_type)
     /\ asset.resp.declared <= CapOfLast
     /\ asset.resp.actual <= CapOfLast
     /\ asset.storeUp)
        => /\ asset.out.path = (IF asset.last = "thumbnail" THEN ThumbnailPath
                                ELSE ContentPath)
           /\ asset.out.written # {}

\* C14 (SpecAsset): a failure of asset preservation never fails the
\* extraction: the run returns True, the record has extraction_status
\* "success" and keeps the remote thumbnail_url; with no preserved thumbnail
\* the local path is empty and the remote URL is the one served.
C14_AssetFailureNonFatal ==
    asset.pc = "done" =>
        /\ asset.ret = "True"
        /\ asset.record.extraction_status = "success"
        /\ asset.record.thumbnail_url = StrOrNone(asset.embed.thumbnail_url)
        /\ asset.thumb = None
              => /\ asset.record.local_thumbnail_path = None
                 /\ PreviewUrl(asset.record) = asset.record.thumbnail_url

\* C14 witness: the run ended after the download of an existing thumbnail
\* failed.
C14_Witness ==
    /\ asset.pc = "done"
    /\ asset.embed.thumbnail_url.cls = "HttpUrl"
    /\ asset.thumb = None
    /\ asset.record.thumbnail_url = "http://img"

\* The providers of the registry that own a scheme the URL matches, by
\* position, in the registry's sense and in the matcher's.
GlobOwners ==
    { i \in 1..Len(matcher.providers) :
        \E k \in 1..Len(matcher.providers[i].schemes) :
            GlobMatch(matcher.providers[i].schemes[k], matcher.url) }
RegexOwners ==
    { i \in 1..Len(matcher.providers) : SchemesMatch(matcher.providers[i], matcher.url) }
FirstOf(S) == CHOOSE i \in S : \A j \in S : i <= j

\* C15 (SpecMatcher): a URL that matches a scheme of a registered provider
\* gets a provider; when it matches schemes of two or more providers it gets
\* the first-registered of them; and the result is a function of the
\* registry and the URL.
C15_FirstRegisteredWins ==
    matcher.pc = "returned" =>
        /\ GlobOwners \subseteq RegexOwners
        /\ GlobOwners # {} =>
              /\ matcher.result # None
              /\ matcher.result = matcher.providers[FirstOf(GlobOwners)].name
        /\ RegexOwners # {} =>
              matcher.result = matcher.providers[FirstOf(RegexOwners)].name
        /\ RegexOwners = {} => matcher.result = None

\* C15 witness: a URL that matches the schemes of two providers was matched.
C15_Witness ==
    /\ matcher.pc = "returned"
    /\ Cardinality(GlobOwners) >= 2
    /\ matcher.result # None

\* C16 (SpecCache): in a batch preview, a URL on an unsupported domain (no
\* provider and no custom platform) gets is_supported false and no embed
\* data, whatever the other URLs are and whatever its page returns.
C16_UnsupportedInBatch ==
    (answer.kind = "batch" /\ answer.http = 200) =>
        \A u \in DOMAIN answer.results :
            ~IsSupportedUrl(u)
                => /\ ~answer.results[u].is_supported
                   /\ IsNone(answer.results[u].oembed_data)

\* What extracting the URL alone returns in the conditions position i met.
AloneAt(i) ==
    IF batch.ins[i].raises THEN NoneResp
    ELSE GetOEmbedData(batch.urls[i], batch.ins[i].up)

\* C17 (SpecBatch): for every order of completion the batch returns exactly
\* one result per distinct input URL, keyed by the URL and equal to what
\* extracting that URL alone returns; a failure or an exception of one
\* extraction leaves the results of the other URLs as they are.
C17_KeyedByUrl ==
    batch.pc = "returned" =>
        /\ DOMAIN batch.out = Range(batch.urls)
        /\ \A u \in DOMAIN batch.out :
              \E i \in DOMAIN batch.urls :
                  /\ batch.urls[i] = u
                  /\ batch.out[u] = AloneAt(i)
        /\ \A i \in DOMAIN batch.urls :
              Occurrences(batch.urls, batch.urls[i]) = 1
                  => batch.out[batch.urls[i]] = AloneAt(i)

\* C17 witness: a batch of different URLs returned after its extractions
\* completed in an order other than the input order, one of them with a
\* failure and another with a result.
C17_Witness ==
    /\ batch.pc = "returned"
    /\ Len(batch.urls) >= 2
    /\ batch.order[1] # 1
    /\ \E i, j \in DOMAIN batch.urls :
          /\ batch.urls[i] # batch.urls[j]
          /\ IsNone(batch.out[batch.urls[i]])
          /\ ~IsNone(batch.out[batch.urls[j]])

\* batch_get_oembed_data configures no ceiling; the property is stated for a
\* ceiling one below the longest batch, and so for every ceiling as the
\* longest batch grows.
ConcurrencyCeiling == MaxUrls - 1

\* C18 (SpecBatch): during a batch extraction of N URLs the number of
\* extractions in flight never exceeds the concurrency ceiling.
C18_BoundedFanOut == Cardinality(InFlight) <= ConcurrencyCeiling

\* C19 (SpecLimiter): under any interleaving of concurrent callers, the
\* number of upstream calls issued within any sliding window never exceeds
\* the calls-per-minute ceiling (a caller over the ceiling waits for a free
\* slot). It is enough to look at the windows that end now.
C19_WindowCeiling ==
    CountStamps(WithinWindow(issued, limiter.now)) <= RequestsPerMinute

\* C20 (SpecEngine): every successful result of the engine has the fields
\* its type needs: a photo has its url, a video or rich result has its html
\* (an upstream response without them counts as a failed extraction).
C20_TypeFieldsPresent ==
    (engine.pc = "returned" /\ ~IsNone(engine.result))
        => /\ engine.result.type = "photo" => engine.result.url.s # None
           /\ engine.result.type \in {"video", "rich"} => engine.result.html # None

\* The id the platform's pattern finds in the URL the strategy looks at (a
\* pin.it link is resolved first), "n/a" for a URL of no such platform.
PlatformIdOf(u, up) ==
    CASE IdentifyProvider(u) = "youtube"   -> ExtractYoutubeId(u)
      [] IdentifyProvider(u) = "instagram" -> ExtractInstagramId(u)
      [] IdentifyProvider(u) = "twitter"   -> ExtractTwitterId(u)
      [] CustomDomain(u) = "pinterest"     ->
            ExtractPinterestId(IF u = U_PINIT THEN up.head ELSE u)
      [] CustomDomain(u) = "tiktok"        -> ExtractTiktokId(u)
      [] CustomDomain(u) = "facebook" /\ FacebookPath(u) -> ExtractFacebookId(u)
      [] OTHER                             -> "n/a"

\* Every upstream the strategies read has answered with usable data.
AllUpstreamsFine(up) ==
    /\ up.std.ok /\ up.std.html # None /\ UrlFieldOk(up.std.url)
    /\ Truthy(up.page) /\ UrlFieldOk(up.page.image)
    /\ up.head # "Fail"

\* C21 (SpecEngine): when the platform's id pattern does not match the URL,
\* the extraction does not fail for that reason: with every upstream fine it
\* yields a result, whose platform_id is missing.
C21_MissingIdIsNoError ==
    ( /\ engine.pc = "returned"
      /\ PlatformIdOf(engine.url, engine.up) = None
      /\ AllUpstreamsFine(engine.up) )
        => ~IsNone(engine.result) /\ engine.result.platform_id = None

\* C22 (SpecBoundary): no failure escapes the engine: for every URL, also a
\* malformed one, and every statement that raises, get_oembed_data returns a
\* result or None to its caller and never an exception.
C22_NothingEscapes ==
    boundary.pc = "returned" => ~IsRaise(boundary.out)

\* A call in which the engine's own body, the custom dispatch and the
\* fallback all raised, and the caller got None.
C22_Witness ==
    /\ boundary.pc = "returned"
    /\ IsRaise(EngineBody(boundary.url, boundary.up, boundary.faults))
    /\ IsRaise(CustomBody(boundary.url, boundary.up, boundary.faults))
    /\ IsRaise(FallbackBody(boundary.url, boundary.up, boundary.faults))
    /\ IsNone(boundary.out)

\* The providers whose results come from the standard oEmbed request.
StandardProviders == { "youtube", "vimeo", "twitter", "tiktok" }

MaxRetryNumber == 6

\* C26 (SpecTask): the delay before retry number n is min(300, 60 * 2^n)
\* seconds: it is non-decreasing in n and never above 300, for every n and
\* for the countdown of every retry the task schedules.
C26_CappedBackoff ==
    /\ \A n \in 0..MaxRetryNumber :
          LET d == 60 * (2 ^ n)
          IN  /\ RetryDelay(n) = IF d <= 300 THEN d ELSE 300
              /\ RetryDelay(n) <= RetryDelay(n + 1)
              /\ RetryDelay(n) <= 300
    /\ ctask.state = "RETRY" =>
          /\ ctask.countdown = RetryDelay(ctask.retries - 1)
          /\ ctask.countdown <= 300

\* The last retry the task may schedule, with its delay of 240 seconds.
C26_Witness ==
    /\ ctask.state = "RETRY"
    /\ ctask.retries = max_retries
    /\ ctask.countdown = 240

\* The runs of background processing that are under way.
ActiveRuns == { i \in RunIds : runs[i].pc = "extracting" }

\* C24 (SpecProcess): at no time are two workers executing the background
\* extraction of the same item: at most one run is active.
C24_OneActiveRun == Cardinality(ActiveRuns) <= 1

\* A run with force_refresh that found the item's row ends with a failed
\* extraction.
FailedRefreshEnds(i) ==
    /\ runs[i].pc = "extracting" /\ runs'[i].pc = "done"
    /\ runs[i].force /\ runs[i].existing
    /\ runs'[i].outcome \in {"none", "raise"}

\* ... the row stays as it is, none is added, and of the item exactly
\* oembed_processed is set.
C29_SetsFlagStep ==
    \A i \in RunIds :
        FailedRefreshEnds(i)
            => /\ oembedRow' = oembedRow
               /\ shareItem' = [ shareItem EXCEPT !.oembed_processed = TRUE ]

C29_KeepsRecordStep ==
    \A i \in RunIds :
        FailedRefreshEnds(i)
            => /\ oembedRow' = oembedRow
               /\ shareItem' \in { shareItem, [ shareItem EXCEPT !.oembed_processed = TRUE ] }
               /\ (~runs[i].loaded.oembed_processed \/ shareItem = runs[i].loaded)
                     => shareItem'.oembed_processed

UnsupportedMiss(r, u) ==
    /\ PreviewLookup(r, u)
    /\ IdentifyProvider(u) = None /\ CustomDomain(u) = None
    /\ SelectUnexpired({UrlHash(u)}, now) = {}

C25_SupportCheckStep ==
    \A r \in Reqs, u \in CacheUrls :
        UnsupportedMiss(r, u)
            => /\ answer'.r = r /\ answer'.urls = << u >>
               /\ answer'.results[u].is_supported = FALSE
               /\ answer'.results[u].error # None
               /\ IsNone(answer'.results[u].oembed_data)
               /\ req'[r].pc = "idle"
               /\ cache' = cache

\* C25 (SpecCache): the support check decides whether extraction is
\* attempted at all: a preview of a URL without an unexpired cache entry for
\* which is_supported is false is answered is_supported=false with an error,
\* the extraction engine is not invoked and the cache is left unchanged.
C25_UnsupportedNotExtracted == [][C25_SupportCheckStep]_vars

\* Such a preview has been answered.
C25_Witness ==
    /\ answer.kind = "preview" /\ answer.urls = << U_BLOG >>
    /\ answer.results[U_BLOG].is_supported = FALSE
    /\ answer.results[U_BLOG].error = "unsupported"

\* The entries a step removes from the cache.
Removed == DOMAIN cache \ DOMAIN cache'

\* The sweep ends: it has removed the entries that expired before the time
\* of its DELETE and no others, and it returns their number.
C27_SweepStep ==
    (sweep.pc = "counted" /\ sweep'.pc = "idle")
        => /\ Removed = { h \in DOMAIN cache : cache[h].expires_at < now }
           /\ \A h \in DOMAIN cache' : cache'[h] = cache[h]
           /\ sweep.expired_count = Cardinality(Removed)

\* C27 (SpecCache): the periodic cache sweep removes every entry whose
\* expires_at is earlier than the sweep time and no other entry, also when
\* cache writes happen concurrently with the sweep, and the count it returns
\* equals the number of entries it removed.
C27_SweepCountsWhatItRemoves == [][C27_SweepStep]_vars

\* A preview that found no entry for its URL, stored or expired, comes back
\* from the engine and answers: when the engine gave data the answer carries
\* it without an error, and the URL has its entry in the cache.
C28_ConcurrentMissStep ==
    \A r \in Reqs :
        ( /\ req[r].pc = "extract" /\ req[r].kind = "preview" /\ ~req[r].stale
          /\ req'[r].pc = "idle" )
            => LET u == req[r].urls[1]
               IN  /\ answer'.results[u].error \in {None, "failed"}
                   /\ answer'.results[u].error = None
                         => /\ ~IsNone(answer'.results[u].oembed_data)
                            /\ UrlHash(u) \in DOMAIN cache'

\* C28 (SpecCache): two concurrent previews of the same supported URL with
\* no cache entry both return the extracted data without error, in every
\* interleaving of their cache reads, extractions and cache writes, and
\* afterwards exactly one cache entry exists for that URL.
C28_ConcurrentPreviewsBothAnswer == [][C28_ConcurrentMissStep]_vars
====
